---- MODULE Spec2Model ----
(***************************************************************************)
(* cli-app (BalaM314/cli-app): the argument tokenizer                      *)
(* Application.parseArgs, the resolver Subcommand.run and the dispatcher   *)
(* Application.run of src/src/Application.ts.                              *)
(*                                                                         *)
(* A JavaScript string is a sequence of one-character strings, so that the *)
(* three regular expressions of parseArgs are computed on the characters.  *)
(* A JavaScript value is a record [kind, s, b]: a string, null, undefined  *)
(* or a boolean.  A JavaScript object with string keys is the sequence of  *)
(* its [k, v] entries in insertion order (the order of Object.entries).    *)
(***************************************************************************)
EXTENDS Integers, Sequences, FiniteSets, TLC

VARIABLES
    parse,              \* the frame of one Application.parseArgs call
    sub,                \* the frame of one Subcommand.run call
    commands,           \* Application.commands
    aliases,            \* Application.aliases
    defaultSubcommand,  \* Application.defaultSubcommand (the command's name)
    currentRunOptions,  \* Application.currentRunOptions
    run,                \* the frame of one Application.run call
    reg,                \* the frame of one registration call: command builder, alias(), category()
    suspended           \* the frames of the Application.run calls waiting at their await

vars == <<parse, sub, commands, aliases, defaultSubcommand, currentRunOptions, run, reg, suspended>>
appVars == <<commands, aliases, defaultSubcommand, currentRunOptions, run, reg, suspended>>

----------------------------------------------------------------------------
(* Bounds of the model. *)

\* longest token list given to Application.parseArgs
MaxParseArgs == 3
\* longest token list given to Subcommand.run
MaxSubArgs == 3
\* longest token list after the two runtime tokens given to Application.run
MaxRunArgs == 2

\* the longest token list the resolver is given on commands with positional slots
MaxFillArgs == 3
\* longest token list of the runs that follow the registrations
MaxRegisterArgs == 1
\* longest token list of the runs through the try/catch of Application.run
MaxFunnelArgs == 2
\* longest token list of the runs of an application with a category
MaxCategoryArgs == 2
\* longest token list of the overlapping runs
MaxOverlapArgs == 1
\* most runs waiting at their await while another one runs
MaxSuspended == 1

----------------------------------------------------------------------------
(* JavaScript values. *)

Str(s) == [kind |-> "string", s |-> s, b |-> FALSE]
Null == [kind |-> "null", s |-> <<>>, b |-> FALSE]
Undefined == [kind |-> "undefined", s |-> <<>>, b |-> FALSE]
Bool(b) == [kind |-> "boolean", s |-> <<>>, b |-> b]

\* x == null, x != null: true of null and of undefined
IsNullish(x) == x.kind \in {"null", "undefined"}

\* a ?? b
Coalesce(a, b) == IF IsNullish(a) THEN b ELSE a

\* JavaScript truthiness of a value
Truthy(x) ==
    CASE x.kind = "string" -> x.s # <<>>
      [] x.kind = "boolean" -> x.b
      [] OTHER -> FALSE

(* JavaScript objects with string keys, as entry sequences. *)

\* k in obj
HasKey(obj, k) == \E j \in DOMAIN obj : obj[j].k = k

\* obj[k]
Get(obj, k) ==
    IF HasKey(obj, k)
    THEN obj[CHOOSE j \in DOMAIN obj : obj[j].k = k].v
    ELSE Undefined

\* obj[k] = v: an existing key keeps its place, a new key is appended
Put(obj, k, v) ==
    IF HasKey(obj, k)
    THEN [j \in DOMAIN obj |-> IF obj[j].k = k THEN [k |-> k, v |-> v] ELSE obj[j]]
    ELSE Append(obj, [k |-> k, v |-> v])

\* delete obj[k]
Delete(obj, k) == SelectSeq(obj, LAMBDA e : e.k # k)

\* Array.prototype.includes
Includes(arr, x) == \E j \in DOMAIN arr : arr[j] = x

\* the set of the elements of an array
Elems(arr) == {arr[j] : j \in DOMAIN arr}

\* Array.prototype.flat of an array of arrays
RECURSIVE Flat(_)
Flat(arrs) == IF arrs = <<>> THEN <<>> ELSE Head(arrs) \o Flat(Tail(arrs))

\* all sequences over S of length at most n
SeqsUpTo(S, n) == UNION {[1..k -> S] : k \in 0..n}

----------------------------------------------------------------------------
(* Characters and the regular expressions of parseArgs. *)

\* the characters matched by \w
WordChars ==
    {"a","b","c","d","e","f","g","h","i","j","k","l","m","n","o","p","q","r",
     "s","t","u","v","w","x","y","z",
     "A","B","C","D","E","F","G","H","I","J","K","L","M","N","O","P","Q","R",
     "S","T","U","V","W","X","Y","Z",
     "0","1","2","3","4","5","6","7","8","9","_"}

\* String.prototype.startsWith("-")
StartsWithHyphen(s) == Len(s) >= 1 /\ s[1] = "-"

\* the positions at which the lazy name group of __nameEqualsValue may end:
\* an "=" that leaves at least one character of name after the two hyphens
EqualsPositions(arg) == {k \in 4..Len(arg) : arg[k] = "="}

\* /^--([\s\S]+?)=([\s\S]*?)$/: does the token match
Matches__nameEqualsValue(arg) ==
    /\ Len(arg) >= 4
    /\ arg[1] = "-" /\ arg[2] = "-"
    /\ EqualsPositions(arg) # {}

\* the position of the "=" a lazy match splits at
SplitAtLazy(arg) == CHOOSE k \in EqualsPositions(arg) : \A o \in EqualsPositions(arg) : k <= o
\* the position a greedy name group would split at
SplitAtGreedy(arg) == CHOOSE k \in EqualsPositions(arg) : \A o \in EqualsPositions(arg) : k >= o

\* the position of the "=" the match splits at: the name group is lazy
SplitAt(arg) == SplitAtLazy(arg)

\* the two groups of a __nameEqualsValue match
Match__nameEqualsValue(arg) ==
    [name |-> SubSeq(arg, 3, SplitAt(arg) - 1),
     value |-> SubSeq(arg, SplitAt(arg) + 1, Len(arg))]

\* /^--([\s\S]+)/: does the token match
Matches__name(arg) == Len(arg) >= 3 /\ arg[1] = "-" /\ arg[2] = "-"

\* the group of a __name match
Match__name(arg) == SubSeq(arg, 3, Len(arg))

\* /^-(\w+)/: does the token match
Matches_name(arg) == Len(arg) >= 2 /\ arg[1] = "-" /\ arg[2] \in WordChars

\* the group of a _name match: the longest run of word characters after the hyphen
Match_name(arg) ==
    LET stop == {k \in 2..Len(arg) : arg[k] \notin WordChars}
        last == IF stop = {} THEN Len(arg)
                ELSE (CHOOSE k \in stop : \A o \in stop : k <= o) - 1
    IN SubSeq(arg, 2, last)

----------------------------------------------------------------------------
(* Application.parseArgs, one loop iteration at a time.  A loop state is   *)
(* [args, namedArgs, positionalArgs, firstPositionalArg, i, pc].           *)

\* the state before the first iteration
ParseStart(providedArgs) ==
    [args |-> providedArgs, namedArgs |-> <<>>, positionalArgs |-> <<>>,
     firstPositionalArg |-> Undefined, i |-> 1, pc |-> "loop"]

\* the branch of the if-chain the first remaining token takes
Branch(args) ==
    IF args = <<>> THEN "break"
    ELSE IF args[1] = <<"-", "-">> THEN "separator"
    ELSE IF Matches__nameEqualsValue(args[1]) THEN "nameEqualsValue"
    ELSE IF Matches__name(args[1]) THEN "name"
    ELSE IF Matches_name(args[1]) THEN "shortName"
    ELSE "positional"

\* a lookahead that forgets the valueless names
NoValueLookaheadOnly(rest, argName, valuelessOptions) ==
    rest # <<>> /\ StartsWithHyphen(rest[1])

\* a lookahead that forgets the hyphen of the next token
NoValueValuelessOnly(rest, argName, valuelessOptions) ==
    Includes(valuelessOptions, argName)

\* args[0]?.startsWith("-") || valuelessOptions.includes(argName)
NoValue(rest, argName, valuelessOptions) ==
    \/ (rest # <<>> /\ StartsWithHyphen(rest[1]))
    \/ Includes(valuelessOptions, argName)

\* the value a flag gets: null, or args.shift() ?? null
FlagValue(rest, argName, valuelessOptions) ==
    IF NoValue(rest, argName, valuelessOptions) \/ rest = <<>>
    THEN Null ELSE Str(rest[1])

\* the tokens left after a flag took its value, if it took one
AfterFlag(rest, argName, valuelessOptions) ==
    IF NoValue(rest, argName, valuelessOptions) \/ rest = <<>>
    THEN rest ELSE Tail(rest)

\* arg == undefined: break
StepBreak(L) == [L EXCEPT !.pc = "returned"]

\* a separator branch that pushes only the tokens after the separator
StepSeparatorDropped(L) ==
    [L EXCEPT !.positionalArgs = L.positionalArgs \o Tail(L.args),
              !.args = Tail(L.args),
              !.pc = "returned"]

\* arg == "--": positionalArgs.push(arg, ...args); break
StepSeparator(L) ==
    [L EXCEPT !.positionalArgs = L.positionalArgs \o <<L.args[1]>> \o Tail(L.args),
              !.args = Tail(L.args),
              !.pc = "returned"]

\* --name=value
StepNameEqualsValue(L) ==
    LET matchResult == Match__nameEqualsValue(L.args[1]) IN
    [L EXCEPT !.namedArgs = Put(L.namedArgs, matchResult.name, Str(matchResult.value)),
              !.args = Tail(L.args),
              !.i = L.i + 1]

\* --name
StepName(L, valuelessOptions) ==
    LET argName == Match__name(L.args[1])
        rest == Tail(L.args)
    IN [L EXCEPT !.namedArgs = Put(L.namedArgs, argName, FlagValue(rest, argName, valuelessOptions)),
                 !.args = AfterFlag(rest, argName, valuelessOptions),
                 !.i = L.i + 1]

\* for(const arg of shortArgs) namedArgs[arg] = null
RECURSIVE PutAllNull(_, _)
PutAllNull(obj, shortArgs) ==
    IF shortArgs = <<>> THEN obj
    ELSE PutAllNull(Put(obj, <<Head(shortArgs)>>, Null), Tail(shortArgs))

\* a short-form branch that looks the whole group up in valuelessOptions
StepShortNameWholeGroup(L, valuelessOptions) ==
    LET argName == Match_name(L.args[1])
        shortArgs == SubSeq(argName, 1, Len(argName) - 1)
        lastShortArg == <<argName[Len(argName)]>>
        rest == Tail(L.args)
        withLast == Put(L.namedArgs, lastShortArg, FlagValue(rest, argName, valuelessOptions))
    IN [L EXCEPT !.namedArgs = PutAllNull(withLast, shortArgs),
                 !.args = AfterFlag(rest, argName, valuelessOptions),
                 !.i = L.i + 1]

\* -abc: the last character follows the lookahead rule, then the others are set to null
StepShortName(L, valuelessOptions) ==
    LET argName == Match_name(L.args[1])
        shortArgs == SubSeq(argName, 1, Len(argName) - 1)
        lastShortArg == <<argName[Len(argName)]>>
        rest == Tail(L.args)
        withLast == Put(L.namedArgs, lastShortArg, FlagValue(rest, lastShortArg, valuelessOptions))
    IN [L EXCEPT !.namedArgs = PutAllNull(withLast, shortArgs),
                 !.args = AfterFlag(rest, lastShortArg, valuelessOptions),
                 !.i = L.i + 1]

\* a positional token that becomes firstPositionalArg wherever it is the first positional one
StepPositionalFirstOfAny(L) ==
    [L EXCEPT !.positionalArgs = Append(L.positionalArgs, L.args[1]),
              !.firstPositionalArg = IF L.positionalArgs = <<>> THEN Str(L.args[1])
                                     ELSE L.firstPositionalArg,
              !.args = Tail(L.args),
              !.i = L.i + 1]

\* a positional token; the first token of all is also firstPositionalArg
StepPositional(L) ==
    [L EXCEPT !.positionalArgs = Append(L.positionalArgs, L.args[1]),
              !.firstPositionalArg = IF L.i = 1 THEN Str(L.args[1]) ELSE L.firstPositionalArg,
              !.args = Tail(L.args),
              !.i = L.i + 1]

\* one iteration of the loop
ParseStep(L, valuelessOptions) ==
    LET b == Branch(L.args) IN
    CASE b = "break" -> StepBreak(L)
      [] b = "separator" -> StepSeparator(L)
      [] b = "nameEqualsValue" -> StepNameEqualsValue(L)
      [] b = "name" -> StepName(L, valuelessOptions)
      [] b = "shortName" -> StepShortName(L, valuelessOptions)
      [] b = "positional" -> StepPositional(L)

RECURSIVE ParseLoop(_, _)
ParseLoop(L, valuelessOptions) ==
    IF L.pc = "returned" THEN L ELSE ParseLoop(ParseStep(L, valuelessOptions), valuelessOptions)

\* Application.parseArgs(providedArgs, valuelessOptions)
ParseArgs(providedArgs, valuelessOptions) ==
    LET L == ParseLoop(ParseStart(providedArgs), valuelessOptions) IN
    [positionalArgs |-> L.positionalArgs,
     namedArgs |-> L.namedArgs,
     firstPositionalArg |-> L.firstPositionalArg]

----------------------------------------------------------------------------
(* The tokenizer as a state machine: SpecParse.                            *)

nameN == <<"n">>
nameM == <<"m">>
aliasA == <<"a">>
valueV == <<"v">>
valueW == <<"w">>
Long(name) == <<"-", "-">> \o name
Short(name) == <<"-">> \o name
LongEq(name, value) == <<"-", "-">> \o name \o <<"=">> \o value

\* the tokens the tokenizer is given
ParseTokens ==
    { <<"-", "-">>, <<"-">>, <<>>, valueV, valueW,
      Long(nameN), Long(nameM), LongEq(nameN, valueV), LongEq(nameN, <<>>), LongEq(nameM, valueV \o <<"=">> \o valueW),
      Short(nameN), Short(nameM \o nameN), Short(nameN \o nameN), Short(nameN) \o <<"=">> \o valueV }

\* the valueless lists the tokenizer is given
ParseValueless == { <<>>, <<nameN>>, <<nameM>> }

parseIdle == [pc |-> "idle"]
subIdle == [pc |-> "idle"]
runIdle == [pc |-> "idle"]
regIdle == [op |-> "idle"]

\* the loop state held in the frame
LoopOf(f) ==
    [args |-> f.args, namedArgs |-> f.namedArgs, positionalArgs |-> f.positionalArgs,
     firstPositionalArg |-> f.firstPositionalArg, i |-> f.i, pc |-> f.pc]

\* the frame holding a loop state
FrameOf(f, L) ==
    [providedArgs |-> f.providedArgs, valuelessOptions |-> f.valuelessOptions,
     args |-> L.args, namedArgs |-> L.namedArgs, positionalArgs |-> L.positionalArgs,
     firstPositionalArg |-> L.firstPositionalArg, i |-> L.i, pc |-> L.pc]

InitParse ==
    /\ \E providedArgs \in SeqsUpTo(ParseTokens, MaxParseArgs), valuelessOptions \in ParseValueless :
         parse = FrameOf([providedArgs |-> providedArgs, valuelessOptions |-> valuelessOptions],
                         ParseStart(providedArgs))
    /\ sub = subIdle
    /\ commands = <<>>
    /\ aliases = <<>>
    /\ defaultSubcommand = <<>>
    /\ currentRunOptions = Null
    /\ run = runIdle
    /\ reg = regIdle
    /\ suspended = <<>>

ParseAt(b) == parse.pc = "loop" /\ Branch(parse.args) = b

ParseBreak ==
    /\ ParseAt("break")
    /\ parse' = FrameOf(parse, StepBreak(LoopOf(parse)))
    /\ UNCHANGED <<sub, appVars>>

ParseSeparator ==
    /\ ParseAt("separator")
    /\ parse' = FrameOf(parse, StepSeparator(LoopOf(parse)))
    /\ UNCHANGED <<sub, appVars>>

ParseNameEqualsValue ==
    /\ ParseAt("nameEqualsValue")
    /\ parse' = FrameOf(parse, StepNameEqualsValue(LoopOf(parse)))
    /\ UNCHANGED <<sub, appVars>>

ParseName ==
    /\ ParseAt("name")
    /\ parse' = FrameOf(parse, StepName(LoopOf(parse), parse.valuelessOptions))
    /\ UNCHANGED <<sub, appVars>>

ParseShortName ==
    /\ ParseAt("shortName")
    /\ parse' = FrameOf(parse, StepShortName(LoopOf(parse), parse.valuelessOptions))
    /\ UNCHANGED <<sub, appVars>>

ParsePositional ==
    /\ ParseAt("positional")
    /\ parse' = FrameOf(parse, StepPositional(LoopOf(parse)))
    /\ UNCHANGED <<sub, appVars>>

NextParse ==
    \/ ParseBreak
    \/ ParseSeparator
    \/ ParseNameEqualsValue
    \/ ParseName
    \/ ParseShortName
    \/ ParsePositional

SpecParse == InitParse /\ [][NextParse]_vars

----------------------------------------------------------------------------
(* The named argument builder arg() and the schema a Subcommand builds.    *)

\* arg()
ArgNew ==
    [optional |-> FALSE, valueless |-> FALSE, default |-> Undefined, aliases |-> <<>>]
\* .optional()
ArgOptional(d) == [d EXCEPT !.optional = TRUE]
\* .required()
ArgRequired(d) == [d EXCEPT !.optional = FALSE]
\* .valueless()
ArgValueless(d) == [d EXCEPT !.valueless = TRUE, !.optional = TRUE]
\* .default(value)
ArgDefault(d, value) == [d EXCEPT !.default = Str(value), !.optional = TRUE]
\* .aliases(...aliases)
ArgAliases(d, als) == [d EXCEPT !.aliases = als]

\* Object.fromEntries: a later entry of the same key replaces the value
RECURSIVE FromEntries(_, _)
FromEntries(obj, entries) ==
    IF entries = <<>> THEN obj
    ELSE FromEntries(Put(obj, Head(entries).k, Head(entries).v), Tail(entries))

\* the targets of the command-level alias entries whose key equals `key`
AliasEntriesFor(aliasMap, key) ==
    LET hits == SelectSeq(aliasMap, LAMBDA e : e.k = key)
    IN [j \in DOMAIN hits |-> hits[j].v.s]

\* the ~aliases of a filled named argument
FilledAliases(argOptions, key, value) ==
    value.aliases \o AliasEntriesFor(argOptions.aliases, key)

\* the filled namedArgs of the constructor
FilledNamedArgs(argOptions) ==
    [j \in DOMAIN argOptions.namedArgs |->
        [k |-> argOptions.namedArgs[j].k,
         v |-> [argOptions.namedArgs[j].v EXCEPT
                  !.aliases = FilledAliases(argOptions, argOptions.namedArgs[j].k,
                                            argOptions.namedArgs[j].v)]]]

\* the filled alias table: the command-level map, then every argument's own aliases
FilledAliasTable(argOptions) ==
    FromEntries(<<>>,
        argOptions.aliases \o
        Flat([j \in DOMAIN argOptions.namedArgs |->
                [o \in DOMAIN argOptions.namedArgs[j].v.aliases |->
                    [k |-> argOptions.namedArgs[j].v.aliases[o],
                     v |-> Str(argOptions.namedArgs[j].k)]]]))

\* a positional argument is declared redundantly: a truthy default and "optional" as well
RedundantOptional(p) == Truthy(p.default) /\ p.hasOptional

\* the filled positionalArgs of the constructor
FilledPositionalArgs(argOptions) ==
    [j \in DOMAIN argOptions.positionalArgs |->
        LET p == argOptions.positionalArgs[j] IN
        [name |-> p.name,
         default |-> Coalesce(p.default, Null),
         optional |-> IF Truthy(p.default) THEN TRUE
                      ELSE IF p.hasOptional THEN p.optional ELSE FALSE]]

\* the validation loop: a non-optional positional argument follows an optional one
RequiredAfterOptional(positionalArgs) ==
    \E j, o \in DOMAIN positionalArgs :
        o < j /\ positionalArgs[o].optional /\ ~positionalArgs[j].optional

\* the configuration error new Subcommand(...) throws, "none" if it throws none
SubcommandConfigError(argOptions) ==
    IF \E j \in DOMAIN argOptions.positionalArgs : RedundantOptional(argOptions.positionalArgs[j])
    THEN "redundantOptional"
    ELSE IF RequiredAfterOptional(FilledPositionalArgs(argOptions))
    THEN "requiredAfterOptional"
    ELSE "none"

\* x ?? fallback for an option that is a string, "undefined" when not given
OrDefault(x, fallback) == IF x = "undefined" THEN fallback ELSE x

\* new Subcommand(name, handler, description, argOptions, defaultCommand)
NewSubcommand(name, handler, argOptions, defaultCommand) ==
    [name |-> name,
     handler |-> handler,
     defaultCommand |-> defaultCommand,
     argOptions |->
        [namedArgs |-> FilledNamedArgs(argOptions),
         aliases |-> FilledAliasTable(argOptions),
         positionalArgs |-> FilledPositionalArgs(argOptions),
         positionalArgCountCheck |-> OrDefault(argOptions.positionalArgCountCheck, "ignore"),
         unexpectedNamedArgCheck |-> OrDefault(argOptions.unexpectedNamedArgCheck, "error"),
         allowHelpNamedArg |-> IF argOptions.allowHelpNamedArg = Undefined THEN TRUE
                               ELSE argOptions.allowHelpNamedArg.b]]

----------------------------------------------------------------------------
(* Subcommand.run, one step at a time.  A frame is                         *)
(* [self, args, namedArgs, positionalArgs, pc, failure, opts, calls].      *)

NoFailure == [kind |-> "none", detail |-> <<>>]

\* fail(message): the frame after the ApplicationError is thrown
Fail(F, kind, detail) ==
    [F EXCEPT !.pc = "threw", !.failure = [kind |-> kind, detail |-> detail]]

\* the first line of the message of each failure, up to the name it quotes
Message(kind) ==
    CASE kind = "tooManyPositional" -> "this subcommand expects at most ... positional arguments, but ... arguments were passed"
      [] kind = "missingPositional" -> "Missing required positional argument"
      [] kind = "unexpectedNamed" -> "Unexpected argument"
      [] kind = "requiredNamed" -> "No value specified for required named argument"
      [] OTHER -> ""

\* the frame at the entry of run(args, nodeArgs, application)
RunStart(self, args) ==
    [self |-> self, args |-> args, namedArgs |-> <<>>, positionalArgs |-> <<>>,
     pc |-> "parse", failure |-> NoFailure, opts |-> <<>>, calls |-> 0]

\* the valueless names given to the tokenizer
ValuelessOptions(self) ==
    LET valueless == SelectSeq(self.argOptions.namedArgs, LAMBDA e : e.v.valueless)
    IN Flat([j \in DOMAIN valueless |-> valueless[j].v.aliases \o <<valueless[j].k>>])

\* Application.parseArgs(args, valuelessOptions)
RunParse(F) ==
    LET parsed == ParseArgs(F.args, ValuelessOptions(F.self)) IN
    [F EXCEPT !.namedArgs = parsed.namedArgs,
              !.positionalArgs = [j \in DOMAIN parsed.positionalArgs |-> Str(parsed.positionalArgs[j])],
              !.pc = "countCheck"]

\* a count check that drops the values beyond the declared slots
RunCountCheckTruncating(F) ==
    IF /\ Len(F.positionalArgs) > Len(F.self.argOptions.positionalArgs)
       /\ F.self.argOptions.positionalArgCountCheck = "error"
    THEN Fail(F, "tooManyPositional",
              <<Len(F.self.argOptions.positionalArgs), Len(F.positionalArgs)>>)
    ELSE IF Len(F.positionalArgs) > Len(F.self.argOptions.positionalArgs)
    THEN [F EXCEPT !.positionalArgs =
                       SubSeq(F.positionalArgs, 1, Len(F.self.argOptions.positionalArgs)),
                   !.pc = "fill"]
    ELSE [F EXCEPT !.pc = "fill"]

\* the count check of the positional arguments
RunCountCheck(F) ==
    IF /\ Len(F.positionalArgs) > Len(F.self.argOptions.positionalArgs)
       /\ F.self.argOptions.positionalArgCountCheck = "error"
    THEN Fail(F, "tooManyPositional",
              <<Len(F.self.argOptions.positionalArgs), Len(F.positionalArgs)>>)
    ELSE [F EXCEPT !.pc = "fill"]

\* the filling loop, from declared slot j on
RECURSIVE FillFrom(_, _)
FillFrom(F, j) ==
    IF j > Len(F.self.argOptions.positionalArgs) THEN [F EXCEPT !.pc = "fold"]
    ELSE LET arg == F.self.argOptions.positionalArgs[j] IN
         IF j <= Len(F.positionalArgs) THEN FillFrom(F, j + 1)
         ELSE IF ~IsNullish(arg.default)
              THEN FillFrom([F EXCEPT !.positionalArgs = Append(F.positionalArgs, arg.default)], j + 1)
         ELSE IF arg.optional
              THEN FillFrom([F EXCEPT !.positionalArgs = Append(F.positionalArgs, Undefined)], j + 1)
         ELSE Fail(F, "missingPositional", <<arg.name, Len(F.positionalArgs)>>)

\* a pass that fills no slot and misses none
RunFillSkipped(F) == [F EXCEPT !.pc = "fold"]

\* a filling pass that reports an undeclared named argument before a missing slot
RunFillUnexpectedFirst(F) ==
    LET undeclared == SelectSeq(F.namedArgs,
                          LAMBDA e : /\ ~HasKey(F.self.argOptions.namedArgs, e.k)
                                     /\ ~HasKey(F.self.argOptions.aliases, e.k)
                                     /\ e.k \notin {<<"h", "e", "l", "p">>, <<"?">>})
    IN IF F.self.argOptions.unexpectedNamedArgCheck = "error" /\ undeclared # <<>>
       THEN Fail(F, "unexpectedNamed", <<undeclared[1].k, undeclared[1].v>>)
       ELSE FillFrom(F, 1)

\* the defaults of the positional arguments that were not passed
RunFill(F) == FillFrom(F, 1)

\* a folding that assigns the alias's value whatever the canonical name holds
FoldEntryOverwriting(namedArgs, aliasTable, entry) ==
    LET aliased == Get(aliasTable, entry.k) IN
    IF Truthy(aliased)
    THEN Delete(Put(namedArgs, aliased.s, entry.v), entry.k)
    ELSE namedArgs

\* namedArgs[aliased] ??= value; delete namedArgs[name]
FoldEntry(namedArgs, aliasTable, entry) ==
    LET aliased == Get(aliasTable, entry.k) IN
    IF Truthy(aliased)
    THEN Delete(IF IsNullish(Get(namedArgs, aliased.s))
                THEN Put(namedArgs, aliased.s, entry.v)
                ELSE namedArgs,
                entry.k)
    ELSE namedArgs

\* the forEach over the entries the object had when the loop began
RECURSIVE FoldAll(_, _, _)
FoldAll(namedArgs, aliasTable, entries) ==
    IF entries = <<>> THEN namedArgs
    ELSE FoldAll(FoldEntry(namedArgs, aliasTable, Head(entries)), aliasTable, Tail(entries))

\* this.argOptions.aliases
AliasTableOf(F) == F.self.argOptions.aliases

\* a pass that leaves the alias keys where they are
RunFoldSkipped(F) == [F EXCEPT !.pc = "unexpected"]

\* the aliases are folded into the names they stand for
RunFold(F) ==
    [F EXCEPT !.namedArgs = FoldAll(F.namedArgs, AliasTableOf(F), F.namedArgs),
              !.pc = "unexpected"]

\* a test that accepts the declared names and aliases only
ExpectedDeclaredOnly(self, name) ==
    \/ HasKey(self.argOptions.namedArgs, name)
    \/ HasKey(self.argOptions.aliases, name)

\* name in this.argOptions.namedArgs || name in this.argOptions.aliases || "help" || "?"
Expected(self, name) ==
    \/ HasKey(self.argOptions.namedArgs, name)
    \/ HasKey(self.argOptions.aliases, name)
    \/ name = <<"h", "e", "l", "p">>
    \/ name = <<"?">>

\* the entries of namedArgs the command does not accept
UnexpectedEntries(F) == SelectSeq(F.namedArgs, LAMBDA e : ~Expected(F.self, e.k))

\* the check for named arguments the command does not accept
RunUnexpected(F) ==
    IF /\ F.self.argOptions.unexpectedNamedArgCheck = "error"
       /\ UnexpectedEntries(F) # <<>>
    THEN Fail(F, "unexpectedNamed",
              <<UnexpectedEntries(F)[1].k, UnexpectedEntries(F)[1].v>>)
    ELSE [F EXCEPT !.pc = "named"]

\* a default that is applied only when the key is absent
DefaultedPresentKept(namedArgs, name, opt) ==
    IF IsNullish(Get(namedArgs, name))
    THEN IF ~IsNullish(opt.default) /\ ~HasKey(namedArgs, name)
         THEN [ok |-> TRUE, namedArgs |-> Put(namedArgs, name, opt.default)]
         ELSE IF opt.optional \/ ~IsNullish(opt.default)
         THEN [ok |-> TRUE,
               namedArgs |-> IF opt.valueless THEN namedArgs
                             ELSE Put(namedArgs, name,
                                      IF HasKey(namedArgs, name) THEN Null ELSE Undefined)]
         ELSE [ok |-> FALSE, namedArgs |-> namedArgs]
    ELSE [ok |-> TRUE, namedArgs |-> namedArgs]

\* if(namedArgs[name] == null): the default, null or undefined, or the failure
Defaulted(namedArgs, name, opt) ==
    IF IsNullish(Get(namedArgs, name))
    THEN IF ~IsNullish(opt.default)
         THEN [ok |-> TRUE, namedArgs |-> Put(namedArgs, name, opt.default)]
         ELSE IF opt.optional
         THEN [ok |-> TRUE,
               namedArgs |-> IF opt.valueless THEN namedArgs
                             ELSE Put(namedArgs, name,
                                      IF HasKey(namedArgs, name) THEN Null ELSE Undefined)]
         ELSE [ok |-> FALSE, namedArgs |-> namedArgs]
    ELSE [ok |-> TRUE, namedArgs |-> namedArgs]

\* if(opt["~valueless"]) namedArgs[name] = (namedArgs[name] === null)
Booleaned(namedArgs, name, opt) ==
    IF opt.valueless
    THEN Put(namedArgs, name, Bool(Get(namedArgs, name) = Null))
    ELSE namedArgs

\* the forEach over the declared named arguments, from declaration j on
RECURSIVE NamedFrom(_, _)
NamedFrom(F, j) ==
    IF j > Len(F.self.argOptions.namedArgs) THEN [F EXCEPT !.pc = "handler"]
    ELSE LET name == F.self.argOptions.namedArgs[j].k
             opt == F.self.argOptions.namedArgs[j].v
             d == Defaulted(F.namedArgs, name, opt)
         IN IF d.ok
            THEN NamedFrom([F EXCEPT !.namedArgs = Booleaned(d.namedArgs, name, opt)], j + 1)
            ELSE Fail(F, "requiredNamed", <<name, opt.valueless>>)

\* defaults, required named arguments and the booleans of the valueless ones
RunNamed(F) == NamedFrom(F, 1)

\* return this.handler({commandName, positionalArgs, namedArgs, unparsedArgs, nodeArgs}, application)
RunHandler(F) ==
    [F EXCEPT !.opts = [commandName |-> F.self.name,
                        positionalArgs |-> F.positionalArgs,
                        namedArgs |-> F.namedArgs,
                        unparsedArgs |-> F.args],
              !.calls = F.calls + 1,
              !.pc = "returned"]

\* the next step of run
RunStep(F) ==
    CASE F.pc = "parse" -> RunParse(F)
      [] F.pc = "countCheck" -> RunCountCheck(F)
      [] F.pc = "fill" -> RunFill(F)
      [] F.pc = "fold" -> RunFold(F)
      [] F.pc = "unexpected" -> RunUnexpected(F)
      [] F.pc = "named" -> RunNamed(F)
      [] F.pc = "handler" -> RunHandler(F)

RECURSIVE RunLoop(_)
RunLoop(F) == IF F.pc \in {"returned", "threw"} THEN F ELSE RunLoop(RunStep(F))

\* Subcommand.run(args, nodeArgs, application), up to the call of the handler
SubcommandRun(self, args) == RunLoop(RunStart(self, args))

\* what a run ends with: the failure, or what the handler received
Outcome(F) ==
    IF F.pc = "returned"
    THEN [pc |-> F.pc, failure |-> F.failure,
          namedArgs |-> Elems(F.opts.namedArgs), positionalArgs |-> F.opts.positionalArgs]
    ELSE [pc |-> F.pc, failure |-> F.failure, namedArgs |-> {}, positionalArgs |-> <<>>]

----------------------------------------------------------------------------
(* The resolver as a state machine: SpecResolve.                           *)

nameU == <<"u">>
posP == <<"p">>

\* the declarations arg() can build for a named argument
BuiltArgs ==
    { ArgNew, ArgOptional(ArgNew), ArgDefault(ArgNew, <<"d">>), ArgDefault(ArgNew, <<>>),
      ArgValueless(ArgNew), ArgRequired(ArgValueless(ArgNew)) }

\* argOptions with nothing given
NoArgOptions ==
    [namedArgs |-> <<>>, aliases |-> <<>>, positionalArgs |-> <<>>,
     positionalArgCountCheck |-> "undefined", unexpectedNamedArgCheck |-> "undefined",
     allowHelpNamedArg |-> Undefined]

\* a required positional argument
RequiredPositional(name) ==
    [name |-> name, hasOptional |-> FALSE, optional |-> FALSE, default |-> Undefined]

\* the argOptions the resolver is run with: one named argument n without an
\* alias, with the alias a of its own, or with the command-level alias a
ResolveArgOptions ==
    { [NoArgOptions EXCEPT !.namedArgs = <<[k |-> nameN, v |-> d]>>] : d \in BuiltArgs }
    \cup
    { [NoArgOptions EXCEPT !.namedArgs = <<[k |-> nameN, v |-> ArgAliases(d, <<aliasA>>)]>>] : d \in BuiltArgs }
    \cup
    { [NoArgOptions EXCEPT !.namedArgs = <<[k |-> nameN, v |-> d]>>,
                           !.aliases = <<[k |-> aliasA, v |-> Str(nameN)]>>] : d \in BuiltArgs }
    \cup
    { [NoArgOptions EXCEPT !.namedArgs = <<[k |-> nameN, v |-> ArgAliases(ArgNew, <<aliasA>>)]>>,
                           !.positionalArgs = <<RequiredPositional(posP)>>],
      [NoArgOptions EXCEPT !.namedArgs = <<[k |-> nameM, v |-> ArgNew],
                                           [k |-> nameN, v |-> ArgAliases(ArgOptional(ArgNew), <<aliasA>>)]>>],
      [NoArgOptions EXCEPT !.namedArgs = <<[k |-> nameN, v |-> ArgAliases(ArgOptional(ArgNew), <<aliasA>>)]>>,
                           !.unexpectedNamedArgCheck = "warn"] }

\* the tokens the resolver is run with
ResolveTokens ==
    { Long(nameN), Long(aliasA), LongEq(nameN, valueV), LongEq(nameN, <<>>), Short(nameN), valueV, <<"-", "-">>, Long(nameU) }

InitResolve ==
    /\ \E argOptions \in ResolveArgOptions, args \in SeqsUpTo(ResolveTokens, MaxSubArgs) :
         /\ SubcommandConfigError(argOptions) = "none"
         /\ sub = RunStart(NewSubcommand(<<"c">>, "record", argOptions, FALSE), args)
    /\ parse = parseIdle
    /\ commands = <<>>
    /\ aliases = <<>>
    /\ defaultSubcommand = <<>>
    /\ currentRunOptions = Null
    /\ run = runIdle
    /\ reg = regIdle
    /\ suspended = <<>>

ResolveParse ==
    /\ sub.pc = "parse"
    /\ sub' = RunParse(sub)
    /\ UNCHANGED <<parse, appVars>>

ResolveCountCheck ==
    /\ sub.pc = "countCheck"
    /\ sub' = RunCountCheck(sub)
    /\ UNCHANGED <<parse, appVars>>

ResolveFill ==
    /\ sub.pc = "fill"
    /\ sub' = RunFill(sub)
    /\ UNCHANGED <<parse, appVars>>

ResolveFold ==
    /\ sub.pc = "fold"
    /\ sub' = RunFold(sub)
    /\ UNCHANGED <<parse, appVars>>

ResolveUnexpected ==
    /\ sub.pc = "unexpected"
    /\ sub' = RunUnexpected(sub)
    /\ UNCHANGED <<parse, appVars>>

ResolveNamed ==
    /\ sub.pc = "named"
    /\ sub' = RunNamed(sub)
    /\ UNCHANGED <<parse, appVars>>

ResolveHandler ==
    /\ sub.pc = "handler"
    /\ sub' = RunHandler(sub)
    /\ UNCHANGED <<parse, appVars>>

NextResolve ==
    \/ ResolveParse
    \/ ResolveCountCheck
    \/ ResolveFill
    \/ ResolveFold
    \/ ResolveUnexpected
    \/ ResolveNamed
    \/ ResolveHandler

SpecResolve == InitResolve /\ [][NextResolve]_vars

----------------------------------------------------------------------------
(* The resolver run on commands with positional slots and with the three   *)
(* policies of the two checks: SpecFill.                                   *)

posQ == <<"q">>

\* a positional argument declared with optional: true
OptionalPositional(name) ==
    [name |-> name, hasOptional |-> TRUE, optional |-> TRUE, default |-> Undefined]

\* a positional argument declared with a default
DefaultPositional(name, value) ==
    [name |-> name, hasOptional |-> FALSE, optional |-> FALSE, default |-> Str(value)]

\* the lists of positional slots the commands are declared with
FillPositionalArgs ==
    { <<>>,
      <<RequiredPositional(posP)>>,
      <<OptionalPositional(posP)>>,
      <<DefaultPositional(posP, <<"d">>)>>,
      <<RequiredPositional(posP), RequiredPositional(posQ)>>,
      <<RequiredPositional(posP), OptionalPositional(posQ)>>,
      <<RequiredPositional(posP), DefaultPositional(posQ, <<"d">>)>>,
      <<DefaultPositional(posP, <<"d">>), OptionalPositional(posQ)>>,
      <<DefaultPositional(posP, <<>>), RequiredPositional(posQ)>> }

\* the values of positionalArgCountCheck and unexpectedNamedArgCheck a command can give
CheckPolicies == { "undefined", "ignore", "warn", "error" }

\* a required named argument and a required positional one
RequiredBothArgOptions ==
    [NoArgOptions EXCEPT !.namedArgs = <<[k |-> nameN, v |-> ArgNew]>>,
                         !.positionalArgs = <<RequiredPositional(posP)>>]

\* the argOptions the resolver is run with: every list of slots under every count
\* policy; a named argument n with alias a, and an alias a of an undeclared name,
\* under every policy for unexpected names; a required named argument with a
\* required positional one
FillArgOptions ==
    { [NoArgOptions EXCEPT !.positionalArgs = slots, !.positionalArgCountCheck = policy] :
        slots \in FillPositionalArgs, policy \in CheckPolicies }
    \cup
    { [NoArgOptions EXCEPT !.namedArgs = <<[k |-> nameN, v |-> ArgAliases(ArgOptional(ArgNew), <<aliasA>>)]>>,
                           !.unexpectedNamedArgCheck = policy] : policy \in CheckPolicies }
    \cup
    { [NoArgOptions EXCEPT !.aliases = <<[k |-> aliasA, v |-> Str(nameU)]>>,
                           !.unexpectedNamedArgCheck = policy] : policy \in CheckPolicies }
    \cup
    { RequiredBothArgOptions }

\* the tokens the resolver is run with
FillTokens ==
    { valueV, valueW, <<"-", "-">>, Long(nameN), Long(aliasA), Long(nameU),
      Long(<<"h", "e", "l", "p">>) }

InitFill ==
    /\ \E argOptions \in FillArgOptions, args \in SeqsUpTo(FillTokens, MaxFillArgs) :
         /\ SubcommandConfigError(argOptions) = "none"
         /\ sub = RunStart(NewSubcommand(<<"c">>, "record", argOptions, FALSE), args)
    /\ parse = parseIdle
    /\ commands = <<>>
    /\ aliases = <<>>
    /\ defaultSubcommand = <<>>
    /\ currentRunOptions = Null
    /\ run = runIdle
    /\ reg = regIdle
    /\ suspended = <<>>

SpecFill == InitFill /\ [][NextResolve]_vars

----------------------------------------------------------------------------
(* The Application: its registry and Application.run, one step at a time.  *)
(* A run frame is [rawArgs, runOptions, args, namedArgs,                   *)
(* firstPositionalArg, newArgs, command, pc, error, ran].                  *)

help == <<"h", "e", "l", "p">>
cmdC == <<"c">>
cmdD == <<"d">>

\* the help command the constructor of Application registers
HelpCommand ==
    NewSubcommand(help, "runHelpCommand",
        [NoArgOptions EXCEPT
            !.positionalArgs = <<[name |-> <<"s", "u", "b", "c", "o", "m", "m", "a", "n", "d">>,
                                  hasOptional |-> TRUE, optional |-> TRUE, default |-> Undefined]>>,
            !.positionalArgCountCheck = "ignore",
            !.unexpectedNamedArgCheck = "warn"],
        FALSE)

\* for(alias of aliases) app.aliases[alias] = name
RECURSIVE PutAliases(_, _, _)
PutAliases(obj, als, name) ==
    IF als = <<>> THEN obj
    ELSE PutAliases(Put(obj, Head(als), Str(name)), Tail(als), name)

\* the configuration error impl() throws for a declaration, "none" if it throws none
ImplConfigError(cmds, decl) ==
    IF HasKey(cmds, decl.name) THEN "duplicateCommand"
    ELSE SubcommandConfigError(decl.argOptions)

\* a selection that runs the default command when the alias leads nowhere
SelectionDanglingToDefault(cmds, als, defaultCmd, args, firstPositionalArg) ==
    IF Truthy(firstPositionalArg) /\ HasKey(cmds, firstPositionalArg.s)
    THEN [newArgs |-> Tail(args), command |-> firstPositionalArg.s, error |-> "none"]
    ELSE IF /\ Truthy(firstPositionalArg)
            /\ Truthy(Get(als, firstPositionalArg.s))
            /\ HasKey(cmds, Get(als, firstPositionalArg.s).s)
    THEN [newArgs |-> Tail(args), command |-> Get(als, firstPositionalArg.s).s, error |-> "none"]
    ELSE [newArgs |-> args, command |-> defaultCmd, error |-> "none"]

\* [args.slice(1), this.commands[firstPositionalArg]], the aliased command, or the default
Selection(cmds, als, defaultCmd, args, firstPositionalArg) ==
    IF Truthy(firstPositionalArg) /\ HasKey(cmds, firstPositionalArg.s)
    THEN [newArgs |-> Tail(args), command |-> firstPositionalArg.s, error |-> "none"]
    ELSE IF Truthy(firstPositionalArg) /\ Truthy(Get(als, firstPositionalArg.s))
    THEN IF HasKey(cmds, Get(als, firstPositionalArg.s).s)
         THEN [newArgs |-> Tail(args), command |-> Get(als, firstPositionalArg.s).s, error |-> "none"]
         ELSE [newArgs |-> Tail(args), command |-> <<>>, error |-> "invalidConfig"]
    ELSE [newArgs |-> args, command |-> defaultCmd, error |-> "none"]

\* "help" in namedArgs || "?" in namedArgs
AsksHelp(namedArgs) == HasKey(namedArgs, help) \/ HasKey(namedArgs, <<"?">>)

\* the help override that leaves newArgs without the first token
HelpOverrideArgsKept(cmds, R) ==
    IF Get(cmds, R.command).argOptions.allowHelpNamedArg /\ AsksHelp(R.namedArgs)
    THEN [R EXCEPT !.command = help, !.pc = "command"]
    ELSE [R EXCEPT !.pc = "command"]

\* if(command.argOptions.allowHelpNamedArg) ...: command = help, newArgs = args
HelpOverride(cmds, R) ==
    IF Get(cmds, R.command).argOptions.allowHelpNamedArg /\ AsksHelp(R.namedArgs)
    THEN [R EXCEPT !.command = help, !.newArgs = R.args, !.pc = "command"]
    ELSE [R EXCEPT !.pc = "command"]

----------------------------------------------------------------------------
(* The dispatcher as a state machine: Spec.                                *)

\* argOptions that switch the --help shortcut off
NoHelpArgOptions == [NoArgOptions EXCEPT !.allowHelpNamedArg = Bool(FALSE)]

\* the lists of positional slots of the declarations: the mixes of an optional,
\* a defaulted and a required slot
DeclaredPositionalArgs ==
    { <<OptionalPositional(posP), RequiredPositional(posQ)>>,
      <<DefaultPositional(posP, <<"d">>), RequiredPositional(posQ)>>,
      <<DefaultPositional(posP, <<>>), RequiredPositional(posQ)>>,
      <<OptionalPositional(posP), DefaultPositional(posQ, <<"d">>)>>,
      <<OptionalPositional(posP), DefaultPositional(posQ, <<>>)>>,
      <<[DefaultPositional(posP, <<"d">>) EXCEPT !.hasOptional = TRUE, !.optional = TRUE]>>,
      <<[DefaultPositional(posP, <<>>) EXCEPT !.hasOptional = TRUE, !.optional = FALSE]>> }

\* the command declarations the application is configured with
CommandDeclarations ==
    { [name |-> cmdC, aliases |-> <<>>, default |-> FALSE, argOptions |-> NoArgOptions],
      [name |-> cmdC, aliases |-> <<>>, default |-> FALSE, argOptions |-> NoHelpArgOptions],
      [name |-> cmdD, aliases |-> <<>>, default |-> TRUE, argOptions |-> NoArgOptions],
      [name |-> cmdD, aliases |-> <<cmdC>>, default |-> TRUE, argOptions |-> NoArgOptions] }

\* the declarations with positional slots
PositionalDeclarations ==
    { [name |-> cmdC, aliases |-> <<>>, default |-> FALSE,
       argOptions |-> [NoArgOptions EXCEPT !.positionalArgs = slots]] :
       slots \in DeclaredPositionalArgs }

\* a second default command, and a default command with an alias of its own
DefaultDeclarations ==
    { [name |-> cmdC, aliases |-> <<>>, default |-> TRUE, argOptions |-> NoArgOptions],
      [name |-> cmdD, aliases |-> <<aliasA>>, default |-> TRUE, argOptions |-> NoArgOptions] }

\* a declaration under the name of the built-in command
HelpDeclarations ==
    { [name |-> help, aliases |-> <<cmdD>>, default |-> TRUE, argOptions |-> NoArgOptions] }

\* the names category() is called with
CategoryNames == { cmdC }

\* the calls of alias(alias, target) the application is configured with
AliasCalls == { [alias |-> cmdC, target |-> cmdD] }

\* the tokens after the two runtime tokens
RunTokens ==
    { cmdC, Long(help), Long(<<"?">>), <<"-", "-">>, LongEq(nameN, valueV) }

\* the two runtime tokens
NodeArgs == << <<"n", "o", "d", "e">>, <<"a", "p", "p">> >>

\* the argument vectors Application.run is given
RawArgs ==
    { <<NodeArgs[1]>> } \cup { NodeArgs \o args : args \in SeqsUpTo(RunTokens, MaxRunArgs) }

\* the run options Application.run is given
RunOptions == { [throwOnError |-> Undefined, setProcessExitCodeOnHandlerReturn |-> Undefined] }

\* what the handler of a command does when it is called: it returns a value that
\* is a number or not, it fails with fail(message, exitCode), or it throws another
\* error; directly ("sync") or through the promise it returns ("promise")
Returns(via, isNumber, value) ==
    [kind |-> "returns", via |-> via, isNumber |-> isNumber, value |-> value]
Fails(via, exitCode) == [kind |-> "fails", via |-> via, isNumber |-> FALSE, value |-> exitCode]
Throws(via) == [kind |-> "throws", via |-> via, isNumber |-> FALSE, value |-> 0]

\* the handlers of the commands that return nothing
QuietHandlers == { Returns("sync", FALSE, 0) }

Init ==
    /\ commands = <<[k |-> help, v |-> HelpCommand]>>
    /\ aliases = <<>>
    /\ defaultSubcommand = help
    /\ currentRunOptions = Null
    /\ run = runIdle
    /\ reg = regIdle
    /\ suspended = <<>>
    /\ parse = parseIdle
    /\ sub = subIdle

\* an impl() that writes the aliases and the default before the duplicate check
ImplAliasesFirst(decl, handler) ==
    /\ defaultSubcommand' = IF decl.default THEN decl.name ELSE defaultSubcommand
    /\ aliases' = PutAliases(aliases, decl.aliases, decl.name)
    /\ commands' = IF ImplConfigError(commands, decl) = "none"
                   THEN Put(commands, decl.name,
                            NewSubcommand(decl.name, handler, decl.argOptions, decl.default))
                   ELSE commands

\* impl(handler) of the builder: the duplicate check, new Subcommand, the three writes
Impl(decl, handler) ==
    IF ImplConfigError(commands, decl) = "none"
    THEN /\ commands' = Put(commands, decl.name,
                            NewSubcommand(decl.name, handler, decl.argOptions, decl.default))
         /\ defaultSubcommand' = IF decl.default THEN decl.name ELSE defaultSubcommand
         /\ aliases' = PutAliases(aliases, decl.aliases, decl.name)
    ELSE UNCHANGED <<commands, defaultSubcommand, aliases>>

\* app.command(name).aliases(...).default().args(argOptions).impl(handler)
Command(decl) ==
    /\ run.pc = "idle"
    /\ Impl(decl, "record")
    /\ reg' = [op |-> "command", decl |-> decl, error |-> ImplConfigError(commands, decl)]
    /\ UNCHANGED <<currentRunOptions, run, parse, sub, suspended>>

\* the argOptions category() gives the command of a category
CategoryArgOptions ==
    [NoArgOptions EXCEPT !.unexpectedNamedArgCheck = "ignore",
                         !.positionalArgCountCheck = "ignore",
                         !.allowHelpNamedArg = Bool(FALSE)]

\* the declaration category(name, description, callback) registers
CategoryDeclaration(name) ==
    [name |-> name, aliases |-> <<>>, default |-> FALSE, argOptions |-> CategoryArgOptions]

\* app.category(name, description, callback)
Category(name) ==
    /\ run.pc = "idle"
    /\ Impl(CategoryDeclaration(name), "category")
    /\ reg' = [op |-> "category", decl |-> CategoryDeclaration(name),
               error |-> ImplConfigError(commands, CategoryDeclaration(name))]
    /\ UNCHANGED <<currentRunOptions, run, parse, sub, suspended>>

\* app.alias(alias, target)
Alias(call) ==
    /\ run.pc = "idle"
    /\ aliases' = Put(aliases, call.alias, Str(call.target))
    /\ reg' = [op |-> "alias", decl |-> call, error |-> "none"]
    /\ UNCHANGED <<commands, defaultSubcommand, currentRunOptions, run, parse, sub, suspended>>

\* no error
NoError == [type |-> "none", origin |-> "none", exitCode |-> 0]

\* process.exitCode before anything sets it
ExitCodeUnset == [set |-> FALSE, code |-> 0]

\* no nested application was run
NoNested == [called |-> FALSE, rawArgs |-> <<>>, runOptions |-> Null]

\* the synchronous entry of Application.run(rawArgs, runOptions), up to the
\* provisional parseArgs
Begin(rawArgs, runOptions) ==
    /\ IF Len(rawArgs) < 2
       THEN /\ run' = [pc |-> "rejected", rawArgs |-> rawArgs, runOptions |-> runOptions,
                       args |-> <<>>, namedArgs |-> <<>>, firstPositionalArg |-> Undefined,
                       newArgs |-> <<>>, command |-> <<>>, error |-> "crash", ran |-> <<>>,
                       completion |-> Returns("sync", FALSE, 0), thrown |-> NoError,
                       exitCode |-> ExitCodeUnset, printed |-> "none",
                       nested |-> NoNested]
            /\ UNCHANGED currentRunOptions
       ELSE LET args == SubSeq(rawArgs, 3, Len(rawArgs))
                parsed == ParseArgs(args, <<>>)
            IN /\ run' = [pc |-> "select", rawArgs |-> rawArgs, runOptions |-> runOptions,
                          args |-> args, namedArgs |-> parsed.namedArgs,
                          firstPositionalArg |-> parsed.firstPositionalArg,
                          newArgs |-> <<>>, command |-> <<>>, error |-> "none", ran |-> <<>>,
                          completion |-> Returns("sync", FALSE, 0), thrown |-> NoError,
                          exitCode |-> ExitCodeUnset, printed |-> "none",
                       nested |-> NoNested]
               /\ currentRunOptions' = runOptions
    /\ reg' = regIdle
    /\ UNCHANGED <<commands, aliases, defaultSubcommand, parse, sub>>

\* Application.run(rawArgs, runOptions) called when no other run is in progress
RunBegin(rawArgs, runOptions) ==
    /\ run.pc \in {"idle", "done", "rejected"}
    /\ Begin(rawArgs, runOptions)
    /\ UNCHANGED suspended

\* the subcommand is chosen from firstPositionalArg
RunSelect ==
    /\ run.pc = "select"
    /\ LET sel == Selection(commands, aliases, defaultSubcommand, run.args, run.firstPositionalArg)
       IN run' = IF sel.error = "none"
                 THEN [run EXCEPT !.newArgs = sel.newArgs, !.command = sel.command, !.pc = "help"]
                 ELSE [run EXCEPT !.error = sel.error, !.pc = "rejected"]
    /\ UNCHANGED <<commands, aliases, defaultSubcommand, currentRunOptions, parse, sub, reg, suspended>>

\* --help and --? run the help command
RunHelp ==
    /\ run.pc = "help"
    /\ run' = HelpOverride(commands, run)
    /\ UNCHANGED <<commands, aliases, defaultSubcommand, currentRunOptions, parse, sub, reg, suspended>>

\* a category handler that hands the nested application the positional values only
NestedRawArgsPositionalOnly(nodeArgs, opts) ==
    nodeArgs \o [j \in DOMAIN opts.positionalArgs |-> opts.positionalArgs[j].s]

\* opts.nodeArgs.concat(opts.unparsedArgs)
NestedRawArgs(nodeArgs, opts) == nodeArgs \o opts.unparsedArgs

\* the handler category() registers: category.run(..., this.currentRunOptions!)
CategoryHandler(nodeArgs, opts, options) ==
    [called |-> TRUE, rawArgs |-> NestedRawArgs(nodeArgs, opts), runOptions |-> options]

\* await command.run(newArgs, nodeArgs, this): the resolver fails, or the handler is
\* called and completes in the way `completion` says
RunCommand(completion) ==
    /\ run.pc = "command"
    /\ LET F == SubcommandRun(Get(commands, run.command), run.newArgs) IN
       run' = [run EXCEPT !.ran = [command |-> run.command, args |-> run.newArgs,
                                   outcome |-> Outcome(F)],
                          !.completion = IF F.pc = "threw" THEN Fails("sync", 1) ELSE completion,
                          !.nested = IF F.pc = "returned" /\ F.self.handler = "category"
                                     THEN CategoryHandler(SubSeq(run.rawArgs, 1, 2), F.opts,
                                                          currentRunOptions)
                                     ELSE NoNested,
                          !.pc = "settle"]
    /\ UNCHANGED <<commands, aliases, defaultSubcommand, currentRunOptions, parse, sub, reg, suspended>>

\* const { setProcessExitCodeOnHandlerReturn = true, throwOnError = false } = runOptions
SetProcessExitCodeOnHandlerReturn(runOptions) ==
    IF runOptions.setProcessExitCodeOnHandlerReturn = Undefined THEN TRUE
    ELSE runOptions.setProcessExitCodeOnHandlerReturn.b
ThrowOnError(runOptions) ==
    IF runOptions.throwOnError = Undefined THEN FALSE ELSE runOptions.throwOnError.b

\* the try block after the await: a numeric result sets the exit code or is thrown
AfterAwait(R) ==
    CASE R.completion.kind = "fails" ->
            [R EXCEPT !.thrown = [type |-> "ApplicationError",
                                  origin |-> IF R.ran.outcome.pc = "threw" THEN "resolver" ELSE "handler",
                                  exitCode |-> R.completion.value]]
      [] R.completion.kind = "throws" ->
            [R EXCEPT !.thrown = [type |-> "Error", origin |-> "handler", exitCode |-> 0]]
      [] R.completion.kind = "returns" ->
            IF ~R.completion.isNumber THEN R
            ELSE IF SetProcessExitCodeOnHandlerReturn(R.runOptions)
            THEN [R EXCEPT !.exitCode = [set |-> TRUE, code |-> R.completion.value]]
            ELSE IF R.completion.value # 0
            THEN [R EXCEPT !.thrown = [type |-> "Error", origin |-> "nonZeroExitCode", exitCode |-> 0]]
            ELSE R

\* a catch block that handles the user-facing failures and lets the rest through
CaughtApplicationErrorsOnly(R) ==
    IF R.thrown = NoError THEN [R EXCEPT !.pc = "done"]
    ELSE IF ThrowOnError(R.runOptions) \/ R.thrown.type # "ApplicationError"
    THEN [R EXCEPT !.pc = "rejected", !.error = "rethrown"]
    ELSE [R EXCEPT !.printed = "Error: message",
                   !.exitCode = IF SetProcessExitCodeOnHandlerReturn(R.runOptions)
                                THEN [set |-> TRUE, code |-> R.thrown.exitCode] ELSE R.exitCode,
                   !.pc = "done"]

\* the catch block: rethrow, or print and set the exit code
Caught(R) ==
    IF R.thrown = NoError THEN [R EXCEPT !.pc = "done"]
    ELSE IF ThrowOnError(R.runOptions) THEN [R EXCEPT !.pc = "rejected", !.error = "rethrown"]
    ELSE IF R.thrown.type = "ApplicationError"
    THEN [R EXCEPT !.printed = "Error: message",
                   !.exitCode = IF SetProcessExitCodeOnHandlerReturn(R.runOptions)
                                THEN [set |-> TRUE, code |-> R.thrown.exitCode] ELSE R.exitCode,
                   !.pc = "done"]
    ELSE [R EXCEPT !.printed = "The command encountered an unhandled runtime error.",
                   !.pc = "done"]

\* the rest of the try block and the catch block
RunSettle ==
    /\ run.pc = "settle"
    /\ run' = Caught(AfterAwait(run))
    /\ UNCHANGED <<commands, aliases, defaultSubcommand, currentRunOptions, parse, sub, reg, suspended>>

\* a run that could be suspended between any two of its steps
AwaitingAnywhere(R) == R.pc \in {"select", "help", "command", "settle"}

\* the run is suspended at `await command.run(...)`, the only await of Application.run
Awaiting(R) == R.pc = "settle"

\* Application.run(rawArgs, runOptions) called while another run waits for its handler
RunOverlap(rawArgs, runOptions) ==
    /\ Awaiting(run)
    /\ Len(suspended) < MaxSuspended
    /\ Begin(rawArgs, runOptions)
    /\ suspended' = Append(suspended, run)

\* the handler of a waiting run settles: the run goes on after its await
RunResume(j) ==
    /\ run.pc \in {"done", "rejected"} \/ Awaiting(run)
    /\ j \in DOMAIN suspended
    /\ run' = suspended[j]
    /\ suspended' = IF Awaiting(run)
                    THEN [suspended EXCEPT ![j] = run]
                    ELSE SubSeq(suspended, 1, j - 1) \o SubSeq(suspended, j + 1, Len(suspended))
    /\ UNCHANGED <<commands, aliases, defaultSubcommand, currentRunOptions, parse, sub, reg>>

Next ==
    \/ \E decl \in CommandDeclarations : Command(decl)
    \/ \E call \in AliasCalls : Alias(call)
    \/ \E rawArgs \in RawArgs, runOptions \in RunOptions : RunBegin(rawArgs, runOptions)
    \/ RunSelect
    \/ RunHelp
    \/ \E completion \in QuietHandlers : RunCommand(completion)
    \/ RunSettle

Spec == Init /\ [][Next]_vars

----------------------------------------------------------------------------
(* The try/catch of Application.run as a state machine: one command with a *)
(* required positional argument, every handler, every run option.          *)
(* SpecFunnel.                                                             *)

\* the tokens after the two runtime tokens
FunnelTokens == { cmdC, valueV }

\* process.argv
FunnelRawArgs == { NodeArgs \o args : args \in SeqsUpTo(FunnelTokens, MaxFunnelArgs) }

\* throwOnError and setProcessExitCodeOnHandlerReturn: left out, true, false
FunnelRunOptions ==
    { [throwOnError |-> t, setProcessExitCodeOnHandlerReturn |-> e] :
        t \in {Undefined, Bool(TRUE), Bool(FALSE)}, e \in {Undefined, Bool(TRUE), Bool(FALSE)} }

\* what a handler can do
HandlerCompletions ==
    UNION { { Returns(via, FALSE, 0), Returns(via, TRUE, 0), Returns(via, TRUE, 2),
              Fails(via, 1), Fails(via, 3), Throws(via) } : via \in {"sync", "promise"} }

\* the application after app.command("c").args({positionalArgs: [{name: "p"}]}).impl(handler)
InitFunnel ==
    /\ commands = Put(<<[k |-> help, v |-> HelpCommand]>>, cmdC,
                      NewSubcommand(cmdC, "record",
                          [NoArgOptions EXCEPT !.positionalArgs = <<RequiredPositional(posP)>>],
                          FALSE))
    /\ aliases = <<>>
    /\ defaultSubcommand = help
    /\ currentRunOptions = Null
    /\ run = runIdle
    /\ reg = regIdle
    /\ suspended = <<>>
    /\ parse = parseIdle
    /\ sub = subIdle

NextFunnel ==
    \/ \E rawArgs \in FunnelRawArgs, runOptions \in FunnelRunOptions : RunBegin(rawArgs, runOptions)
    \/ RunSelect
    \/ RunHelp
    \/ \E completion \in HandlerCompletions : RunCommand(completion)
    \/ RunSettle

SpecFunnel == InitFunnel /\ [][NextFunnel]_vars

----------------------------------------------------------------------------
(* Categories as a state machine: category(), a default command and an     *)
(* alias of the category, then runs.  SpecCategory.                        *)

\* the tokens after the two runtime tokens
CategoryTokens == { cmdC, cmdD, Long(help), Long(nameN) }

\* process.argv
CategoryRawArgs == { NodeArgs \o args : args \in SeqsUpTo(CategoryTokens, MaxCategoryArgs) }

\* the run options of the outer run
CategoryRunOptions ==
    { [throwOnError |-> t, setProcessExitCodeOnHandlerReturn |-> Undefined] :
        t \in {Undefined, Bool(TRUE)} }

\* the command registered next to the category: a default command d
CategoryCommandDeclarations ==
    { [name |-> cmdD, aliases |-> <<>>, default |-> TRUE, argOptions |-> NoArgOptions] }

\* alias("d", "c")
CategoryAliasCalls == { [alias |-> cmdD, target |-> cmdC] }

\* the commands of the nested application after callback(category) registered d
NestedCommands ==
    Put(<<[k |-> help, v |-> HelpCommand]>>, cmdD,
        NewSubcommand(cmdD, "record", NoArgOptions, FALSE))

\* the command the nested Application.run calls for the argv it is given
NestedCommand(rawArgs) ==
    LET args == SubSeq(rawArgs, 3, Len(rawArgs))
        parsed == ParseArgs(args, <<>>)
        sel == Selection(NestedCommands, <<>>, help, args, parsed.firstPositionalArg)
    IN HelpOverride(NestedCommands,
                    [command |-> sel.command, newArgs |-> sel.newArgs, args |-> args,
                     namedArgs |-> parsed.namedArgs, pc |-> "help"]).command

NextCategory ==
    \/ \E name \in CategoryNames : Category(name)
    \/ \E decl \in CategoryCommandDeclarations : Command(decl)
    \/ \E call \in CategoryAliasCalls : Alias(call)
    \/ \E rawArgs \in CategoryRawArgs, runOptions \in CategoryRunOptions :
          RunBegin(rawArgs, runOptions)
    \/ RunSelect
    \/ RunHelp
    \/ \E completion \in QuietHandlers : RunCommand(completion)
    \/ RunSettle

SpecCategory == Init /\ [][NextCategory]_vars

----------------------------------------------------------------------------
(* Overlapping runs of an application with a category: a run begins while  *)
(* others wait for their handlers.  SpecOverlap.                           *)

\* the tokens after the two runtime tokens
OverlapTokens == { cmdC, Long(help) }

\* process.argv
OverlapRawArgs == { NodeArgs \o args : args \in SeqsUpTo(OverlapTokens, MaxOverlapArgs) }

NextOverlap ==
    \/ \E name \in CategoryNames : Category(name)
    \/ \E rawArgs \in OverlapRawArgs, runOptions \in CategoryRunOptions :
          RunBegin(rawArgs, runOptions)
    \/ \E rawArgs \in OverlapRawArgs, runOptions \in CategoryRunOptions :
          RunOverlap(rawArgs, runOptions)
    \/ \E j \in 1..MaxSuspended : RunResume(j)
    \/ RunSelect
    \/ RunHelp
    \/ \E completion \in QuietHandlers : RunCommand(completion)
    \/ RunSettle

SpecOverlap == Init /\ [][NextOverlap]_vars

----------------------------------------------------------------------------
(* The registry as a state machine: every registration operation, then     *)
(* short runs.  SpecRegister.                                              *)

\* the tokens of the runs after registration
RegisterTokens == { cmdC, cmdD, Long(help) }

\* process.argv of those runs
RegisterRawArgs == { NodeArgs \o args : args \in SeqsUpTo(RegisterTokens, MaxRegisterArgs) }

\* the calls of alias(alias, target): to a command, and from a name to itself
RegisterAliasCalls == AliasCalls \cup { [alias |-> aliasA, target |-> cmdC] }

NextRegister ==
    \/ \E decl \in CommandDeclarations \cup PositionalDeclarations
                      \cup DefaultDeclarations \cup HelpDeclarations : Command(decl)
    \/ \E name \in CategoryNames : Category(name)
    \/ \E call \in RegisterAliasCalls : Alias(call)
    \/ \E rawArgs \in RegisterRawArgs, runOptions \in RunOptions : RunBegin(rawArgs, runOptions)
    \/ RunSelect
    \/ RunHelp
    \/ \E completion \in QuietHandlers : RunCommand(completion)
    \/ RunSettle

SpecRegister == Init /\ [][NextRegister]_vars

----------------------------------------------------------------------------
(* Claims about the tokenizer, checked under SpecParse.                    *)

\* the first position of character c in token t, 0 if there is none
FirstIndex(t, c) ==
    IF \E k \in DOMAIN t : t[k] = c
    THEN CHOOSE k \in DOMAIN t : t[k] = c /\ \A o \in 1..(k - 1) : t[o] # c
    ELSE 0

\* the frame is about to process a token that is `--` followed by a name without "="
AtLongFlag ==
    /\ parse.pc = "loop" /\ parse.args # <<>>
    /\ Len(parse.args[1]) >= 3
    /\ parse.args[1][1] = "-" /\ parse.args[1][2] = "-"
    /\ FirstIndex(parse.args[1], "=") = 0

SeparatorIndex(tokens) == FirstIndex(tokens, <<"-", "-">>)

\* C4: the first `--` is the separator: the result is the result of the tokens
\* before it (so nothing at or after it is a named assignment, and no flag
\* before it took it as a value), with `--` and every token after it appended
\* in order to positionalArgs.
C4_SeparatorEndsScanning ==
    (parse.pc = "returned" /\ SeparatorIndex(parse.providedArgs) # 0) =>
        LET k == SeparatorIndex(parse.providedArgs)
            before == ParseArgs(SubSeq(parse.providedArgs, 1, k - 1), parse.valuelessOptions)
        IN /\ parse.namedArgs = before.namedArgs
           /\ parse.positionalArgs =
                before.positionalArgs \o SubSeq(parse.providedArgs, k, Len(parse.providedArgs))
           /\ parse.firstPositionalArg = before.firstPositionalArg

\* C4 witness: `--n -- --m`: n did not take the separator, `--m` is positional
C4_Witness ==
    /\ parse.providedArgs = <<Long(nameN), <<"-", "-">>, Long(nameM)>>
    /\ parse.valuelessOptions = <<>>
    /\ parse.pc = "returned"
    /\ parse.namedArgs = <<[k |-> nameN, v |-> Null]>>
    /\ parse.positionalArgs = <<<<"-", "-">>, Long(nameM)>>

\* the frame is about to process a token `--name=value` with a non-empty name
AtLongEquals ==
    /\ parse.pc = "loop" /\ parse.args # <<>>
    /\ Len(parse.args[1]) >= 4
    /\ parse.args[1][1] = "-" /\ parse.args[1][2] = "-"
    /\ FirstIndex(parse.args[1], "=") >= 4

\* C5: `--name=value` assigns value (everything after the first "=", possibly
\* empty) to name (the text before the first "=") and never takes the next token.
C5_LongEqualsAssigns ==
    [][AtLongEquals =>
        LET t == parse.args[1]
            e == FirstIndex(t, "=")
        IN /\ Get(parse'.namedArgs, SubSeq(t, 3, e - 1)) = Str(SubSeq(t, e + 1, Len(t)))
           /\ parse'.args = Tail(parse.args)
           /\ parse'.positionalArgs = parse.positionalArgs
    ]_vars

\* C5 witness: `--m=v=w v` with m valueless: m is "v=w" and v is still to be processed
C5_Witness ==
    /\ parse.providedArgs = <<LongEq(nameM, valueV \o <<"=">> \o valueW), valueV>>
    /\ parse.valuelessOptions = <<nameM>>
    /\ parse.pc = "loop" /\ parse.i = 2
    /\ parse.namedArgs = <<[k |-> nameM, v |-> Str(valueV \o <<"=">> \o valueW)]>>
    /\ parse.args = <<valueV>>

\* the frame is about to process `-` followed by pairwise distinct word characters
AtDistinctShortGroup ==
    /\ parse.pc = "loop" /\ parse.args # <<>>
    /\ Len(parse.args[1]) >= 2
    /\ parse.args[1][1] = "-"
    /\ \A j \in 2..Len(parse.args[1]) : parse.args[1][j] \in WordChars
    /\ \A j, o \in 2..Len(parse.args[1]) : j # o => parse.args[1][j] # parse.args[1][o]

----------------------------------------------------------------------------
(* Claims about the resolver, checked under SpecResolve.                   *)

\* the run has ended: the handler was called, or a failure was thrown
Ended(F) == F.pc \in {"returned", "threw"}

\* the declaration of the named argument `name` of the running command
DeclOf(F, name) == Get(F.self.argOptions.namedArgs, name)

\* the command declares `name`
Declares(F, name) == HasKey(F.self.argOptions.namedArgs, name)

\* token j of the list is met by the tokenizer before any separator
BeforeSeparator(tokens, j) == SeparatorIndex(tokens) = 0 \/ j < SeparatorIndex(tokens)

\* the names a token assigns when the tokenizer takes it as a flag
TokenNames(t) ==
    IF Branch(<<t>>) \in {"nameEqualsValue", "name", "shortName"}
    THEN {e.k : e \in Elems(ParseArgs(<<t>>, <<>>).namedArgs)}
    ELSE {}

\* C1: a valueless required argument passed as the bare flag `--n` is accepted:
\* no 'required named argument' failure, and the handler gets n = true.
C1_RequiredValuelessAccepted ==
    ( /\ Ended(sub)
      /\ Declares(sub, nameN) /\ DeclOf(sub, nameN).valueless /\ ~DeclOf(sub, nameN).optional
      /\ \E j \in DOMAIN sub.args : sub.args[j] = Long(nameN) /\ BeforeSeparator(sub.args, j)
      /\ sub.failure.kind \in {"none", "requiredNamed"} )
    => /\ sub.pc = "returned"
       /\ Get(sub.opts.namedArgs, nameN) = Bool(TRUE)

\* the names that stand for `name`: itself and the keys the alias table maps to it
NamesFor(F, name) ==
    {name} \cup {e.k : e \in {x \in Elems(F.self.argOptions.aliases) : x.v = Str(name)}}

\* the command line specified `name` under one of its names
Specified(F, name) ==
    \E e \in Elems(ParseArgs(F.args, ValuelessOptions(F.self)).namedArgs) :
        e.k \in NamesFor(F, name)

\* C2: the handler gets true for a valueless optional argument that was
\* specified in any form (`--n`, `--n=value`, an alias, a short flag) and false
\* for one that was not specified.
C2_ValuelessTrueIffSpecified ==
    ( /\ sub.pc = "returned"
      /\ Declares(sub, nameN) /\ DeclOf(sub, nameN).valueless /\ DeclOf(sub, nameN).optional )
    => Get(sub.opts.namedArgs, nameN) = Bool(Specified(sub, nameN))

\* n takes a value and a is an alias of n, of n's own or of the command-level map
HasAliasedValueArg(F) ==
    /\ Declares(F, nameN) /\ ~DeclOf(F, nameN).valueless
    /\ Get(F.self.argOptions.aliases, aliasA) = Str(nameN)

\* tokens j and j+1 are `--n value`
FlagWithValueAt(tokens, j) ==
    /\ j + 1 <= Len(tokens)
    /\ tokens[j] = Long(nameN)
    /\ BeforeSeparator(tokens, j)
    /\ ~StartsWithHyphen(tokens[j + 1])

\* the run of the same command on the tokens with `--n` at j replaced by `--a`
RunWithAlias(F, j) == SubcommandRun(F.self, [F.args EXCEPT ![j] = Long(aliasA)])

\* C9 as stated: replacing `--n value` by `--a value` anywhere in any
\* invocation gives the same outcome.
C9_AliasEquivalence ==
    (Ended(sub) /\ HasAliasedValueArg(sub)) =>
        \A j \in DOMAIN sub.args :
            FlagWithValueAt(sub.args, j) =>
                /\ Outcome(RunWithAlias(sub, j)) = Outcome(sub)
                /\ sub.pc = "returned" => ~HasKey(sub.opts.namedArgs, aliasA)

\* no other token before the separator names n or an alias of n
NamedOnlyAt(F, j) ==
    \A o \in DOMAIN F.args \ {j} :
        BeforeSeparator(F.args, o) => TokenNames(F.args[o]) \cap NamesFor(F, nameN) = {}

\* C9 amended: the same, for an invocation in which no other token names n or
\* an alias of n.
C9_AliasEquivalenceWhenNamedOnce ==
    (Ended(sub) /\ HasAliasedValueArg(sub)) =>
        \A j \in DOMAIN sub.args :
            (FlagWithValueAt(sub.args, j) /\ NamedOnlyAt(sub, j)) =>
                /\ Outcome(RunWithAlias(sub, j)) = Outcome(sub)
                /\ sub.pc = "returned" =>
                     /\ ~HasKey(sub.opts.namedArgs, aliasA)
                     /\ Get(sub.opts.namedArgs, nameN) = Str(sub.args[j + 1])

\* C9 witness: `--n v v` ended for a command whose command-level alias map
\* gives n the alias a, and `--a v v` ends the same way
C9_Witness ==
    /\ Ended(sub)
    /\ HasAliasedValueArg(sub)
    /\ sub.self.argOptions.namedArgs[1].v.aliases = <<>>
    /\ sub.args = <<Long(nameN), valueV, valueV>>
    /\ sub.pc = "returned"
    /\ Get(sub.opts.namedArgs, nameN) = Str(valueV)
    /\ Outcome(RunWithAlias(sub, 1)) = Outcome(sub)

\* a declared argument without a value, a default or "optional"
Missing(namedArgs, e) ==
    /\ IsNullish(Get(namedArgs, e.k))
    /\ IsNullish(e.v.default)
    /\ ~e.v.optional

\* the value C10 gives a declared argument, from its assignment after folding
Resolved(namedArgs, e) ==
    IF Get(namedArgs, e.k).kind = "string" THEN Get(namedArgs, e.k)
    ELSE IF e.v.default.kind = "string" THEN e.v.default
    ELSE IF HasKey(namedArgs, e.k) THEN Null
    ELSE Undefined

\* the declared named arguments that take a value
ValueArgs(F) == {e \in Elems(F.self.argOptions.namedArgs) : ~e.v.valueless}

\* C10: the named pass gives every declared non-valueless argument the string
\* the user supplied (the empty string of `--n=` too), else its default, else
\* (optional) null when the flag was there without a value and undefined when
\* it was not; an argument with none of these fails the run with a 'required
\* named argument' failure, and the handler is not called.  The handler
\* receives the values as resolved.
C10_NamedResolution ==
    [][ /\ sub.pc = "named" =>
            IF \E e \in ValueArgs(sub) : Missing(sub.namedArgs, e)
            THEN /\ sub'.pc = "threw"
                 /\ sub'.failure.kind = "requiredNamed"
                 /\ sub'.calls = 0
            ELSE sub'.pc = "handler" =>
                    \A e \in ValueArgs(sub) :
                        Get(sub'.namedArgs, e.k) = Resolved(sub.namedArgs, e)
        /\ sub.pc = "handler" =>
            /\ sub'.opts.namedArgs = sub.namedArgs
            /\ sub'.calls = 1
    ]_vars

\* C10 witness: `--n=` for n with the default "d": the handler got the empty string
C10_Witness ==
    /\ sub.pc = "returned"
    /\ sub.args = <<LongEq(nameN, <<>>)>>
    /\ Declares(sub, nameN) /\ DeclOf(sub, nameN).default = Str(<<"d">>)
    /\ Get(sub.opts.namedArgs, nameN) = Str(<<>>)

----------------------------------------------------------------------------
(* Claims about the dispatcher, checked under Spec.                        *)

\* the run has chosen its command and not yet looked for --help
Selected == run.pc = "help"

\* the run has called the command
Done == run.pc = "done"

\* the index of the first token the tokenizer takes as positional, 0 if there is none
FirstPositionalAt(tokens) ==
    LET hits == {j \in DOMAIN tokens : ParseArgs(SubSeq(tokens, 1, j), <<>>).positionalArgs # <<>>}
    IN IF hits = {} THEN 0 ELSE CHOOSE j \in hits : \A o \in hits : j <= o

\* the tokens without the one at index j
Without(tokens, j) == SubSeq(tokens, 1, j - 1) \o SubSeq(tokens, j + 1, Len(tokens))

NamesSubcommand(t) ==
    /\ Len(t) >= 1
    /\ t # <<"-", "-">>
    /\ ~(Len(t) >= 3 /\ t[1] = "-" /\ t[2] = "-")
    /\ ~(Len(t) >= 2 /\ t[1] = "-" /\ t[2] \in WordChars)

\* the very first token of the argument vector, when a subcommand can be chosen by it
LeadingName(tokens) == IF tokens # <<>> /\ NamesSubcommand(tokens[1]) THEN tokens[1] ELSE <<>>

\* a token before the separator is --name or --name=value
LongNamed(tokens, name) ==
    \E j \in DOMAIN tokens :
        /\ \A o \in 1..j : tokens[o] # <<"-", "-">>
        /\ \/ tokens[j] = <<"-", "-">> \o name
           \/ /\ Len(tokens[j]) >= Len(name) + 3
              /\ SubSeq(tokens[j], 1, Len(name) + 3) = <<"-", "-">> \o name \o <<"=">>

\* the command line asks for help: --help or --? before the separator
HelpAsked(tokens) == LongNamed(tokens, help) \/ LongNamed(tokens, <<"?">>)

\* the command chosen by the leading token, and the tokens left for it
Choice(cmds, als, defaultCmd, tokens) ==
    LET f == LeadingName(tokens) IN
    IF f # <<>> /\ HasKey(cmds, f) THEN [command |-> f, newArgs |-> Tail(tokens)]
    ELSE IF f # <<>> /\ HasKey(als, f) THEN [command |-> Get(als, f).s, newArgs |-> Tail(tokens)]
    ELSE [command |-> defaultCmd, newArgs |-> tokens]

C8_HelpOverride ==
    Done =>
        LET ch == Choice(commands, aliases, defaultSubcommand, run.args) IN
        IF Get(commands, ch.command).argOptions.allowHelpNamedArg /\ HelpAsked(run.args)
        THEN run.ran.command = help /\ run.ran.args = run.args
        ELSE run.ran.command = ch.command /\ run.ran.args = ch.newArgs

\* a run of `c --help` with c registered and allowing the shortcut: help was called with both tokens
C8_Witness ==
    /\ Done
    /\ run.args = <<cmdC, Long(help)>>
    /\ HasKey(commands, cmdC)
    /\ Get(commands, cmdC).argOptions.allowHelpNamedArg
    /\ run.ran.command = help
    /\ run.ran.args = <<cmdC, Long(help)>>

----------------------------------------------------------------------------
(* Claims about positional slots and the two checks, checked under SpecFill. *)

\* the run is one of the command with a required named and a required positional argument
RunsRequiredBoth(F) ==
    F.self.argOptions = NewSubcommand(<<"c">>, "record", RequiredBothArgOptions, FALSE).argOptions

\* C11 as stated: the command with a required named argument and a required positional
\* one, run with no token, fails with the message about the required named argument;
\* run with `--n v w` its handler gets n = "v" and "w" as first positional value.
C11_RequiredNamedReported ==
    (Ended(sub) /\ RunsRequiredBoth(sub)) =>
        /\ sub.args = <<>> =>
             /\ sub.pc = "threw"
             /\ Message(sub.failure.kind) = "No value specified for required named argument"
        /\ sub.args = <<Long(nameN), valueV, valueW>> =>
             /\ sub.pc = "returned"
             /\ Get(sub.opts.namedArgs, nameN) = Str(valueV)
             /\ sub.opts.positionalArgs[1] = Str(valueW)

\* C11 amended: run with no token the command fails with the message about the missing
\* required positional argument, which is checked first; the message about the required
\* named argument is the failure of a run that passes the positional value alone; run
\* with `--n v w` the handler gets n = "v" and "w" as first positional value.
C11_MissingPositionalReportedFirst ==
    (Ended(sub) /\ RunsRequiredBoth(sub)) =>
        /\ sub.args = <<>> =>
             /\ sub.pc = "threw" /\ sub.calls = 0
             /\ Message(sub.failure.kind) = "Missing required positional argument"
             /\ sub.failure.detail[1] = posP
        /\ sub.args = <<valueW>> =>
             /\ sub.pc = "threw" /\ sub.calls = 0
             /\ Message(sub.failure.kind) = "No value specified for required named argument"
             /\ sub.failure.detail[1] = nameN
        /\ sub.args = <<Long(nameN), valueV, valueW>> =>
             /\ sub.pc = "returned" /\ sub.calls = 1
             /\ Get(sub.opts.namedArgs, nameN) = Str(valueV)
             /\ sub.opts.positionalArgs = <<Str(valueW)>>

\* the run with no token has failed on the positional argument
C11_Witness ==
    /\ RunsRequiredBoth(sub)
    /\ sub.args = <<>>
    /\ sub.pc = "threw"
    /\ sub.failure = [kind |-> "missingPositional", detail |-> <<posP, 0>>]

\* the declared positional slots of the running command
Slots(F) == F.self.argOptions.positionalArgs

\* the positional values the tokenizer produces for the run
SuppliedPositional(F) ==
    LET P == ParseArgs(F.args, ValuelessOptions(F.self)).positionalArgs
    IN [j \in DOMAIN P |-> Str(P[j])]

\* the slot has a default
HasDefault(slot) == slot.default \notin {Null, Undefined}

\* the declared slots beyond the supplied values that have no default and are not optional
MissingSlots(F) ==
    {j \in (Len(SuppliedPositional(F)) + 1)..Len(Slots(F)) :
        ~HasDefault(Slots(F)[j]) /\ ~Slots(F)[j].optional}

\* the supplied values, then the default or undefined for every slot beyond them
FilledPositional(F) ==
    LET supplied == SuppliedPositional(F)
        extra == IF Len(Slots(F)) > Len(supplied) THEN Len(Slots(F)) - Len(supplied) ELSE 0
    IN supplied \o
       [j \in 1..extra |->
          IF HasDefault(Slots(F)[Len(supplied) + j])
          THEN Slots(F)[Len(supplied) + j].default ELSE Undefined]

\* C12: with more supplied positional values than declared slots under the policy
\* `error` the run fails and the handler is not called; otherwise a slot beyond the
\* supplied values that is required makes the run fail with 'Missing required positional
\* argument' and the handler is not called; otherwise the handler receives the supplied
\* values unchanged and in order, none dropped, then the default or undefined per slot.
C12_PositionalResolution ==
    Ended(sub) =>
        IF /\ Len(SuppliedPositional(sub)) > Len(Slots(sub))
           /\ sub.self.argOptions.positionalArgCountCheck = "error"
        THEN sub.pc = "threw" /\ sub.calls = 0 /\ sub.failure.kind = "tooManyPositional"
        ELSE IF MissingSlots(sub) # {}
        THEN /\ sub.pc = "threw" /\ sub.calls = 0
             /\ Message(sub.failure.kind) = "Missing required positional argument"
             /\ \E j \in MissingSlots(sub) :
                    /\ sub.failure.detail[1] = Slots(sub)[j].name
                    /\ \A o \in MissingSlots(sub) : j <= o
        ELSE /\ sub.pc = "returned" => sub.opts.positionalArgs = FilledPositional(sub)
             /\ sub.pc = "threw" => sub.failure.kind \in {"unexpectedNamed", "requiredNamed"}

\* `w -- v` on one required slot under the policy `warn`: the handler got all three
\* values, the separator included
C12_Witness ==
    /\ sub.pc = "returned"
    /\ sub.args = <<valueW, <<"-", "-">>, valueV>>
    /\ Slots(sub) = <<[name |-> posP, default |-> Null, optional |-> FALSE]>>
    /\ sub.self.argOptions.positionalArgCountCheck = "warn"
    /\ sub.opts.positionalArgs = <<Str(valueW), Str(<<"-", "-">>), Str(valueV)>>

\* the named arguments of the run after the aliases are folded
AfterFold(F) ==
    LET parsed == ParseArgs(F.args, ValuelessOptions(F.self)).namedArgs
    IN FoldAll(parsed, F.self.argOptions.aliases, parsed)

\* the entries after folding whose key is no declared name, no declared alias, not help, not ?
Undeclared(F) ==
    {e \in Elems(AfterFold(F)) :
        /\ ~HasKey(F.self.argOptions.namedArgs, e.k)
        /\ ~HasKey(F.self.argOptions.aliases, e.k)
        /\ e.k \notin {<<"h", "e", "l", "p">>, <<"?">>}}

\* the run failed in the checks of the positional arguments, which come first
FailedOnPositional(F) == F.failure.kind \in {"tooManyPositional", "missingPositional"}

\* C13: under the policy `error` (also when the command gives none) a run that gets to
\* the check fails with 'Unexpected argument' and does not call the handler iff after
\* alias folding some supplied key is undeclared; under `warn` and `ignore` the check
\* never fails and the handler receives every undeclared key with its value.
C13_UnexpectedNamedCheck ==
    Ended(sub) =>
        IF sub.self.argOptions.unexpectedNamedArgCheck = "error"
        THEN /\ Undeclared(sub) # {} => (sub.pc = "threw" /\ sub.calls = 0)
             /\ ~FailedOnPositional(sub) =>
                    (Message(sub.failure.kind) = "Unexpected argument" <=> Undeclared(sub) # {})
             /\ sub.failure.kind = "unexpectedNamed" =>
                    \E e \in Undeclared(sub) : sub.failure.detail = <<e.k, e.v>>
        ELSE /\ sub.failure.kind # "unexpectedNamed"
             /\ sub.pc = "returned" => \A e \in Undeclared(sub) : e \in Elems(sub.opts.namedArgs)
             /\ sub.pc = "threw" => (FailedOnPositional(sub) \/ sub.failure.kind = "requiredNamed")

\* `--u v` under the policy `warn` on a command that declares n only: the handler got u = "v"
C13_Witness ==
    /\ sub.pc = "returned"
    /\ sub.args = <<Long(nameU), valueV>>
    /\ sub.self.argOptions.unexpectedNamedArgCheck = "warn"
    /\ Declares(sub, nameN) /\ ~Declares(sub, nameU)
    /\ Get(sub.opts.namedArgs, nameU) = Str(valueV)

----------------------------------------------------------------------------
(* Claims about the order of the steps of Subcommand.run, checked under    *)
(* SpecFill.                                                               *)

\* more positional values than slots under the policy `error`
TooManyPositional(F) ==
    /\ Len(SuppliedPositional(F)) > Len(Slots(F))
    /\ F.self.argOptions.positionalArgCountCheck = "error"

\* an undeclared named argument under the policy `error`
UnexpectedNamed(F) ==
    F.self.argOptions.unexpectedNamedArgCheck = "error" /\ Undeclared(F) # {}

\* a declared named argument that is required and has no value after folding
RequiredNamedMissing(F) ==
    \E e \in Elems(F.self.argOptions.namedArgs) : Missing(AfterFold(F), e)

\* the failure of the earliest step whose rule the invocation violates
EarliestFailure(F) ==
    IF TooManyPositional(F) THEN "tooManyPositional"
    ELSE IF MissingSlots(F) # {} THEN "missingPositional"
    ELSE IF UnexpectedNamed(F) THEN "unexpectedNamed"
    ELSE IF RequiredNamedMissing(F) THEN "requiredNamed"
    ELSE "none"

\* the steps in their order, each followed by the next or by the failure
StepOrder ==
    { <<"parse", "countCheck">>, <<"countCheck", "fill">>, <<"fill", "fold">>,
      <<"fold", "unexpected">>, <<"unexpected", "named">>, <<"named", "handler">>,
      <<"handler", "returned">>,
      <<"countCheck", "threw">>, <<"fill", "threw">>, <<"unexpected", "threw">>,
      <<"named", "threw">> }

\* the failure each step raises
FailureOfStep(pc) ==
    CASE pc = "countCheck" -> "tooManyPositional"
      [] pc = "fill" -> "missingPositional"
      [] pc = "unexpected" -> "unexpectedNamed"
      [] pc = "named" -> "requiredNamed"
      [] OTHER -> "none"

\* C25: Subcommand.run takes its steps in the order count check, positional fill,
\* alias folding, unexpected-named check, named pass, handler; the failure of an
\* invocation that violates several rules is the one of the earliest step; the
\* handler is called only after every step has passed, and at most once.
C25_StepOrder ==
    /\ [](sub.pc # "idle" =>
            /\ sub.calls = IF sub.pc = "returned" THEN 1 ELSE 0
            /\ Ended(sub) => sub.failure.kind = EarliestFailure(sub)
            /\ sub.pc = "returned" => EarliestFailure(sub) = "none")
    /\ [][(sub.pc # "idle" /\ sub'.pc # sub.pc) =>
            /\ <<sub.pc, sub'.pc>> \in StepOrder
            /\ sub'.pc = "threw" => sub'.failure.kind = FailureOfStep(sub.pc)]_vars

\* `--u` on the command with a required named and a required positional argument:
\* three rules are violated and the failure is the one of the positional fill
C25_Witness ==
    /\ sub.pc = "threw"
    /\ RunsRequiredBoth(sub)
    /\ sub.args = <<Long(nameU)>>
    /\ MissingSlots(sub) # {} /\ UnexpectedNamed(sub) /\ RequiredNamedMissing(sub)
    /\ sub.failure.kind = "missingPositional"
    /\ sub.calls = 0

----------------------------------------------------------------------------
(* Claims about the tokenizer's result as a whole, checked under SpecParse. *)

\* the tokenizer has returned
Tokenized == parse.pc = "returned"

\* the tokens of a named argument: --name, or --name value
RenderNamed(entry) ==
    IF entry.v = Null THEN <<Long(entry.k)>> ELSE <<Long(entry.k), entry.v.s>>

\* a result rendered back to tokens: the named arguments, then the positional values
Render(namedArgs, positionalArgs) ==
    Flat([j \in DOMAIN namedArgs |-> RenderNamed(namedArgs[j])]) \o positionalArgs

\* no token is an `=`-joined long flag
NoEqualsJoined(tokens) == \A j \in DOMAIN tokens : ~Matches__nameEqualsValue(tokens[j])

\* the result tokenized again after rendering
Retokenized == ParseArgs(Render(parse.namedArgs, parse.positionalArgs), parse.valuelessOptions)

\* the round trip gives the result back
RoundTrips ==
    /\ Retokenized.namedArgs = parse.namedArgs
    /\ Retokenized.positionalArgs = parse.positionalArgs

\* the last named argument has no value, is not valueless, and a positional value
\* that does not begin with a hyphen comes after it in the rendering
TrailingBareFlag ==
    /\ parse.namedArgs # <<>>
    /\ parse.namedArgs[Len(parse.namedArgs)].v = Null
    /\ ~Includes(parse.valuelessOptions, parse.namedArgs[Len(parse.namedArgs)].k)
    /\ parse.positionalArgs # <<>>
    /\ ~StartsWithHyphen(parse.positionalArgs[1])

\* C23 as stated: for any token sequence without an `=`-joined long flag,
\* rendering the result back to tokens and tokenizing the rendering with the same
\* valueless names yields the same namedArgs and the same positionalArgs.
C23_RoundTrip ==
    (Tokenized /\ NoEqualsJoined(parse.providedArgs)) => RoundTrips

\* C23: the round trip holds unless the last named argument is a flag without a
\* value that is not valueless and the first positional value does not begin with
\* a hyphen: rendered after the flag, that value becomes the flag's value.
C23_RoundTripUnlessTrailingBareFlag ==
    (Tokenized /\ NoEqualsJoined(parse.providedArgs)) => (RoundTrips <=> ~TrailingBareFlag)

\* `-mn w --`: two flags of a group, the value of the last one, the separator
\* kept as a positional value, and the round trip gives the result back
C23_Witness ==
    /\ Tokenized
    /\ parse.providedArgs = <<Short(nameM \o nameN), valueW, <<"-", "-">>>>
    /\ parse.valuelessOptions = <<>>
    /\ parse.namedArgs = <<[k |-> nameN, v |-> Str(valueW)], [k |-> nameM, v |-> Null]>>
    /\ parse.positionalArgs = << <<"-", "-">> >>
    /\ RoundTrips

----------------------------------------------------------------------------
(* Claims about the two tokenization passes, checked under SpecParse.      *)

\* the valueless names the other pass may be given
OtherValueless == ParseValueless \cup { <<nameN, nameM>> }

\* the keys of a namedArgs object
KeysOf(namedArgs) == { namedArgs[j].k : j \in DOMAIN namedArgs }

\* the tokens of a list that begin with a hyphen, in their order
HyphenTokens(tokens) == SelectSeq(tokens, StartsWithHyphen)

\* C28: for every token sequence and any two lists of valueless names, parseArgs
\* yields the same named-argument keys and the same firstPositionalArg; only the
\* values of the named arguments and the positional membership of the tokens that
\* do not begin with a hyphen may differ.
C28_PassesAgreeOnRouting ==
    Tokenized =>
        \A valuelessOptions \in OtherValueless :
            LET other == ParseArgs(parse.providedArgs, valuelessOptions) IN
            /\ KeysOf(other.namedArgs) = KeysOf(parse.namedArgs)
            /\ other.firstPositionalArg = parse.firstPositionalArg
            /\ HyphenTokens(other.positionalArgs) = HyphenTokens(parse.positionalArgs)

\* `--n v -mn` with n valueless: v is positional here and the value of n in a
\* pass without valueless names; the keys and firstPositionalArg are the same
C28_Witness ==
    /\ Tokenized
    /\ parse.providedArgs = <<Long(nameN), valueV, Short(nameM \o nameN)>>
    /\ parse.valuelessOptions = <<nameN>>
    /\ parse.positionalArgs = <<valueV>>
    /\ ParseArgs(parse.providedArgs, <<>>).positionalArgs = <<>>
    /\ Get(ParseArgs(parse.providedArgs, <<>>).namedArgs, nameN) = Null
    /\ KeysOf(parse.namedArgs) = {nameN, nameM}
    /\ parse.firstPositionalArg = Undefined

----------------------------------------------------------------------------
(* Claims about what a flag token keeps, checked under SpecParse.          *)

\* the tokenizer is about to handle the first remaining token as a short-form flag
AtShortFlag == parse.pc = "loop" /\ Branch(parse.args) = "shortName"

\* the step consumed the token after the flag as well
TookValue == Len(parse'.args) = Len(parse.args) - 2

\* C29: every character after the hyphen of a token handled as a short-form flag
\* becomes a named-argument key, and a token consumed as the value of the flag is
\* the value recorded for the flag's name when the step ends, also for compound
\* tokens that repeat a character.
C29_FlagTokenKeepsInput ==
    [][AtShortFlag =>
          /\ \A j \in 2..Len(parse.args[1]) :
                <<parse.args[1][j]>> \in KeysOf(parse'.namedArgs)
          /\ TookValue =>
                \E name \in KeysOf(parse'.namedArgs) :
                    Get(parse'.namedArgs, name) = Str(parse.args[2])]_vars

\* C29, what the branch keeps: every character of the leading run of word
\* characters becomes a key, and the consumed value is recorded for the last of
\* them unless that character occurs in the run before
C29_WordCharactersKept ==
    [][AtShortFlag =>
          LET group == Match_name(parse.args[1]) IN
          /\ \A j \in DOMAIN group : <<group[j]>> \in KeysOf(parse'.namedArgs)
          /\ (TookValue /\ \A j \in 1..(Len(group) - 1) : group[j] # group[Len(group)])
                => Get(parse'.namedArgs, <<group[Len(group)]>>) = Str(parse.args[2])]_vars

----------------------------------------------------------------------------
(* Claims about the valueless names, checked under SpecResolve.            *)

\* the names that stand for a declared argument: the keys of the alias table
\* that lead to it
AliasesOf(self, name) ==
    { self.argOptions.aliases[j].k :
        j \in { o \in DOMAIN self.argOptions.aliases : self.argOptions.aliases[o].v = Str(name) } }

\* the declared arguments that are valueless
ValuelessArgs(self) ==
    { self.argOptions.namedArgs[j].k :
        j \in { o \in DOMAIN self.argOptions.namedArgs : self.argOptions.namedArgs[o].v.valueless } }

\* the aliases an argument was declared with itself
OwnAliasesOf(self, name) == { a \in AliasesOf(self, name) : Includes(Get(self.argOptions.namedArgs, name).aliases, a) }

\* C24: the valueless names Subcommand.run passes to the tokenizer contain, for
\* every valueless argument, its canonical name and every alias of it, declared on
\* the argument itself or in the command-level alias map; so a valueless argument
\* invoked through an alias never takes the following token, which stays positional.
C24_ValuelessNamesComplete ==
    sub.pc # "idle" =>
        \A name \in ValuelessArgs(sub.self) :
            /\ Includes(ValuelessOptions(sub.self), name)
            /\ \A a \in AliasesOf(sub.self, name) : Includes(ValuelessOptions(sub.self), a)
            /\ \A j \in 1..(Len(sub.args) - 1) :
                  (/\ sub.pc \notin {"parse", "threw"}
                   /\ BeforeSeparator(sub.args, j)
                   /\ sub.args[j] \in { Long(a) : a \in AliasesOf(sub.self, name) }
                   /\ ~StartsWithHyphen(sub.args[j + 1]))
                      => \E o \in DOMAIN sub.positionalArgs :
                            sub.positionalArgs[o] = Str(sub.args[j + 1])

\* C24, what the constructor keeps: the canonical name and the aliases declared
\* on the argument itself are among the valueless names
C24_OwnAliasesValueless ==
    sub.pc # "idle" =>
        \A name \in ValuelessArgs(sub.self) :
            /\ Includes(ValuelessOptions(sub.self), name)
            /\ \A a \in OwnAliasesOf(sub.self, name) : Includes(ValuelessOptions(sub.self), a)

----------------------------------------------------------------------------
(* Claims about alias folding, checked under SpecResolve.                  *)

\* the aliases have just been folded
Folded(F) == F.pc = "unexpected"

\* the named arguments the tokenizer produced for the run
Tokenization(F) == ParseArgs(F.args, ValuelessOptions(F.self)).namedArgs

\* the alias-table entries whose alias and canonical name were both supplied
BothSupplied(F) ==
    { e \in Elems(F.self.argOptions.aliases) :
        HasKey(Tokenization(F), e.k) /\ HasKey(Tokenization(F), e.v.s) }

\* C26 as stated: if the user supplied both the canonical name and one of its
\* aliases, the value after folding is the one tokenization assigned to the
\* canonical name, also when that is null, and the alias key is removed.
C26_CanonicalNeverClobbered ==
    Folded(sub) =>
        \A e \in BothSupplied(sub) :
            /\ Get(sub.namedArgs, e.v.s) = Get(Tokenization(sub), e.v.s)
            /\ ~HasKey(sub.namedArgs, e.k)

\* C26: if both were supplied, the value after folding is the one tokenization
\* assigned to the canonical name when that is a string (the empty string
\* included); when it is null (`--name` without a value) the alias's value
\* replaces it; the alias key is removed in both cases.
C26_CanonicalStringKept ==
    Folded(sub) =>
        \A e \in BothSupplied(sub) :
            /\ Get(sub.namedArgs, e.v.s) =
                 IF Get(Tokenization(sub), e.v.s) = Null
                 THEN Get(Tokenization(sub), e.k)
                 ELSE Get(Tokenization(sub), e.v.s)
            /\ ~HasKey(sub.namedArgs, e.k)

\* `--n= --a v`: the canonical name keeps the empty string, the alias is gone
C26_Witness ==
    /\ Folded(sub)
    /\ sub.args = <<LongEq(nameN, <<>>), Long(aliasA), valueV>>
    /\ Tokenization(sub) = <<[k |-> nameN, v |-> Str(<<>>)], [k |-> aliasA, v |-> Str(valueV)]>>
    /\ sub.namedArgs = <<[k |-> nameN, v |-> Str(<<>>)]>>

----------------------------------------------------------------------------
(* Claims about registration, checked under SpecRegister.                  *)

\* the last call was the command builder's impl()
Registering == reg.op = "command"

\* the slots the last registration declared
DeclaredSlots == reg.decl.argOptions.positionalArgs

\* a slot declared required: not optional, no default
DeclaredRequired(p) == ~(p.hasOptional /\ p.optional) /\ IsNullish(p.default)

\* a slot declared with optional: true and no default
DeclaredOptional(p) == p.hasOptional /\ p.optional /\ IsNullish(p.default)

\* a slot declared with a default value
DeclaredDefault(p) == ~IsNullish(p.default)

\* a required slot is declared after an optional or defaulted one
RequiredFollows(slots) ==
    \E o, j \in DOMAIN slots :
        /\ o < j
        /\ DeclaredOptional(slots[o]) \/ DeclaredDefault(slots[o])
        /\ DeclaredRequired(slots[j])

\* a step leaves the registry as it was
RegistryUnchanged == UNCHANGED <<commands, aliases, defaultSubcommand>>

\* C14: registering a command whose positional list has a required slot (not
\* optional, no default) anywhere after an optional or defaulted one fails with
\* a configuration error, and the command is not added to the registry.
C14_RequiredAfterOptionalRejected ==
    [][(Registering' /\ RequiredFollows(DeclaredSlots'))
          => (reg'.error # "none" /\ RegistryUnchanged)]_vars

\* C14, the case the constructor does reject: the slot before the required one
\* is optional or has a non-empty default
C14_RejectedWhenTruthy ==
    [][(/\ Registering'
        /\ \E o, j \in DOMAIN DeclaredSlots' :
               /\ o < j
               /\ DeclaredOptional(DeclaredSlots'[o]) \/ Truthy(DeclaredSlots'[o].default)
               /\ DeclaredRequired(DeclaredSlots'[j]))
          => (reg'.error # "none" /\ RegistryUnchanged)]_vars

\* a slot with a default is declared after an optional slot without one
DefaultFollowsOptional(slots) ==
    \E o, j \in DOMAIN slots :
        o < j /\ DeclaredOptional(slots[o]) /\ DeclaredDefault(slots[j])

\* C15: registering a command in which a positional argument with a default
\* value follows an optional one without a default fails with the configuration
\* error whose message says such arguments "cannot follow optional ones".
C15_DefaultAfterOptionalRejected ==
    [][(/\ Registering'
        /\ ~HasKey(commands, reg'.decl.name)
        /\ DefaultFollowsOptional(DeclaredSlots'))
          => reg'.error = "requiredAfterOptional"]_vars

\* the last call went through impl(): the command builder or category()
Implementing == reg.op \in {"command", "category"}

\* C16: registering a command under a name that is already registered, the
\* built-in help included, fails with a configuration error and leaves the
\* commands map, the alias map and the default subcommand as they were.
C16_DuplicateRejected ==
    [][(Implementing' /\ HasKey(commands, reg'.decl.name))
          => (reg'.error = "duplicateCommand" /\ RegistryUnchanged)]_vars

\* a registration under the name help, with an alias and the default mark, and
\* one under a user command's name, were rejected
C16_Witness ==
    /\ Implementing
    /\ reg.error = "duplicateCommand"
    /\ reg.decl.name = help
    /\ reg.decl.aliases # <<>>
    /\ reg.decl.default
    /\ ~HasKey(aliases, Head(reg.decl.aliases))
    /\ HasKey(commands, cmdC)

\* the run is past the selection of the subcommand
PastSelection == run.pc \in {"help", "command", "settle", "done", "rejected"}

\* the leading token is not a command but an alias, and the alias names no command
DanglingAlias ==
    /\ Truthy(run.firstPositionalArg)
    /\ ~HasKey(commands, run.firstPositionalArg.s)
    /\ Truthy(Get(aliases, run.firstPositionalArg.s))
    /\ ~HasKey(commands, Get(aliases, run.firstPositionalArg.s).s)

\* C17 as stated: Application.run never raises a configuration error, whatever
\* registry the registration operations have built.
C17_NoConfigErrorInDispatch == ~(run.pc = "rejected" /\ run.error = "invalidConfig")

\* C17: Application.run raises a configuration error exactly when the leading
\* token is an alias whose target is not a registered command; the errors of a
\* declaration are raised by the registration, which adds nothing to the registry.
C17_ConfigErrorOnlyForDanglingAlias ==
    /\ PastSelection =>
          ((run.pc = "rejected" /\ run.error = "invalidConfig") <=> DanglingAlias)
    /\ (Implementing /\ reg.error = "none") =>
          \A j \in DOMAIN reg.decl.aliases :
              HasKey(commands, Get(aliases, reg.decl.aliases[j]).s)

\* a run whose leading token is an alias made by alias() for a name that was
\* never registered is rejected with the configuration error
C17_Witness ==
    /\ run.pc = "rejected"
    /\ run.error = "invalidConfig"
    /\ run.firstPositionalArg = Str(cmdC)
    /\ Get(aliases, cmdC) = Str(cmdD)
    /\ ~HasKey(commands, cmdD)

\* the names of the registered subcommands that carry the default mark
MarkedDefault ==
    { commands[j].k : j \in { o \in DOMAIN commands : commands[o].v.defaultCommand } }

\* C18: after any sequence of registrations at most one registered subcommand
\* is marked as the default command, and that one is the defaultSubcommand.
C18_OneDefaultCommand ==
    /\ Cardinality(MarkedDefault) <= 1
    /\ \A name \in MarkedDefault : defaultSubcommand = name

\* C18, what the registrations do keep: the defaultSubcommand is registered, and
\* it is the built-in help or a command that carries the mark
C18_DefaultIsMarkedOrHelp ==
    /\ HasKey(commands, defaultSubcommand)
    /\ defaultSubcommand \in MarkedDefault \cup {help}

\* the slots of the schema the last registration built
BuiltSlots == Get(commands, reg.decl.name).argOptions.positionalArgs

\* a slot declared with `optional` and a default together
DeclaredBoth(p) == DeclaredDefault(p) /\ p.hasOptional

\* C27: for every positional declaration with a default set to any string, the
\* empty string included, the built schema marks the argument optional: it may
\* follow optional slots, and declaring `optional` with the default is rejected.
C27_DefaultMarksOptional ==
    [][(Registering' /\ ~HasKey(commands, reg'.decl.name)) =>
          /\ (\E j \in DOMAIN DeclaredSlots' : DeclaredBoth(DeclaredSlots'[j]))
                => reg'.error = "redundantOptional"
          /\ (/\ DefaultFollowsOptional(DeclaredSlots')
              /\ ~RequiredFollows(DeclaredSlots')
              /\ \A j \in DOMAIN DeclaredSlots' : ~DeclaredBoth(DeclaredSlots'[j]))
                => reg'.error = "none"
          /\ reg'.error = "none" =>
                \A j \in DOMAIN DeclaredSlots' :
                    DeclaredDefault(DeclaredSlots'[j]) => BuiltSlots'[j].optional]_vars

\* C27, what the constructor does for a default that is not the empty string
C27_NonEmptyDefaultMarksOptional ==
    [][(Registering' /\ ~HasKey(commands, reg'.decl.name)) =>
          /\ (\E j \in DOMAIN DeclaredSlots' :
                 Truthy(DeclaredSlots'[j].default) /\ DeclaredSlots'[j].hasOptional)
                => reg'.error = "redundantOptional"
          /\ reg'.error = "none" =>
                \A j \in DOMAIN DeclaredSlots' :
                    Truthy(DeclaredSlots'[j].default) => BuiltSlots'[j].optional]_vars

----------------------------------------------------------------------------
(* Claims about the error funnel of Application.run, checked under         *)
(* SpecFunnel.                                                             *)

\* command.run(...) has completed and the try/catch is about to act on it
Settling == run.pc = "settle"

\* the resolver or the handler raised an error
Raises(R) == R.completion.kind \in {"fails", "throws"}

\* the error the resolver or the handler raised
Raised(R) ==
    IF R.completion.kind = "fails"
    THEN [type |-> "ApplicationError",
          origin |-> IF R.ran.outcome.pc = "threw" THEN "resolver" ELSE "handler",
          exitCode |-> R.completion.value]
    ELSE [type |-> "Error", origin |-> "handler", exitCode |-> 0]

\* C19: with throwOnError false (the default) every error raised by the resolver
\* or by the handler, synchronously or through a rejected promise, is caught and
\* Application.run resolves; with throwOnError true it rejects with that same error.
C19_ErrorFunnel ==
    [][(Settling /\ Raises(run)) =>
          IF ThrowOnError(run.runOptions)
          THEN run'.pc = "rejected" /\ run'.error = "rethrown" /\ run'.thrown = Raised(run)
               /\ run'.printed = "none"
          ELSE run'.pc = "done" /\ run'.thrown = Raised(run) /\ run'.printed # "none"]_vars

\* an error that is no ApplicationError, thrown through the promise of a handler
\* that was given its positional argument, was caught and the run resolved
C19_Witness ==
    /\ run.pc = "done"
    /\ run.completion = Throws("promise")
    /\ run.ran.command = cmdC
    /\ run.ran.outcome.pc # "threw"
    /\ ~ThrowOnError(run.runOptions)
    /\ run.printed = "The command encountered an unhandled runtime error."

\* the handler returned a number that is not zero
ReturnsNonZero(R) ==
    R.completion.kind = "returns" /\ R.completion.isNumber /\ R.completion.value # 0

\* C20: with setProcessExitCodeOnHandlerReturn false a handler that returns a
\* non-zero number makes Application.run reject, for either value of throwOnError;
\* with setProcessExitCodeOnHandlerReturn true the exit code is set to the number
\* and Application.run resolves.
C20_NonZeroReturn ==
    [][(Settling /\ ReturnsNonZero(run)) =>
          IF SetProcessExitCodeOnHandlerReturn(run.runOptions)
          THEN run'.pc = "done" /\ run'.exitCode = [set |-> TRUE, code |-> run.completion.value]
          ELSE run'.pc = "rejected"]_vars

\* C20, what the try/catch does: the rejection needs throwOnError as well;
\* without it the error made from the number is caught and the run resolves
\* with the exit code left alone
C20_NonZeroReturnRejectsWhenThrowing ==
    [][(Settling /\ ReturnsNonZero(run)) =>
          IF SetProcessExitCodeOnHandlerReturn(run.runOptions)
          THEN run'.pc = "done" /\ run'.exitCode = [set |-> TRUE, code |-> run.completion.value]
          ELSE IF ThrowOnError(run.runOptions)
          THEN run'.pc = "rejected" /\ run'.thrown.origin = "nonZeroExitCode"
          ELSE /\ run'.pc = "done"
               /\ run'.exitCode = ExitCodeUnset
               /\ run'.printed = "The command encountered an unhandled runtime error."]_vars

\* the resolver or the handler raised a user-facing failure and it is not rethrown
CatchesFailure(R) == R.completion.kind = "fails" /\ ~ThrowOnError(R.runOptions)

\* C21: whenever Application.run catches a user-facing failure instead of
\* rethrowing it, the process exit code is set to that failure's exit code, for
\* every combination of run options.
C21_CaughtFailureSetsExitCode ==
    [][(Settling /\ CatchesFailure(run)) =>
          run'.exitCode = [set |-> TRUE, code |-> run.completion.value]]_vars

\* C21, what the catch block does: the exit code is set when
\* setProcessExitCodeOnHandlerReturn is on, and left alone when it is off
C21_ExitCodeSetWhenOptionOn ==
    [][(Settling /\ CatchesFailure(run)) =>
          /\ run'.pc = "done"
          /\ run'.printed = "Error: message"
          /\ run'.exitCode = IF SetProcessExitCodeOnHandlerReturn(run.runOptions)
                             THEN [set |-> TRUE, code |-> run.completion.value]
                             ELSE ExitCodeUnset]_vars

----------------------------------------------------------------------------
(* Claims about categories, checked under SpecCategory.                    *)

\* the command a leading token names: itself, or the command it is an alias of
NamedBy(token) ==
    IF HasKey(commands, token) THEN token
    ELSE IF Truthy(Get(aliases, token)) THEN Get(aliases, token).s
    ELSE <<>>

\* the first token after the runtime tokens names a category
CategoryInvoked ==
    /\ run.pc \in {"settle", "done"}
    /\ run.args # <<>>
    /\ Head(Head(run.args)) # "-"
    /\ HasKey(commands, NamedBy(Head(run.args)))
    /\ Get(commands, NamedBy(Head(run.args))).handler = "category"

----------------------------------------------------------------------------
(* Claims about overlapping runs, checked under SpecOverlap.               *)

\* the frames of all runs in progress or ended: the running one and the waiting ones
Frames == { suspended[j] : j \in DOMAIN suspended } \cup { run }

\* the frames whose category handler has called the nested application
Delegated == { R \in Frames : R.pc \in {"settle", "done", "rejected"} /\ R.nested.called }

\* C30: when Application.run calls with different run options interleave, every
\* category delegation passes to the nested application the run options of the
\* run that invoked that category handler, never those of another run.
C30_OverlappingRunsKeepOptions ==
    \A R \in Delegated : R.nested.runOptions = R.runOptions

\* two runs of the category with different options, the first still waiting for
\* its handler while the second has delegated: each passed its own options
C30_Witness ==
    /\ Len(suspended) = 1
    /\ suspended[1] \in Delegated /\ run \in Delegated
    /\ suspended[1].runOptions # run.runOptions
    /\ suspended[1].nested.runOptions = suspended[1].runOptions
    /\ run.nested.runOptions = run.runOptions
    /\ currentRunOptions = run.runOptions

============================================================================
